---- MODULE Spec2Model ----
(***************************************************************************)
(* Model of static/background-effects.js: the declarative option resolver  *)
(* (parseData, hexToColor, the option merge of HyperspeedApp), the         *)
(* DOMContentLoaded scan that builds one effect per .background-container, *)
(* and the frame loop / dispose lifecycle of IridescenceEffect and         *)
(* HyperspeedApp.                                                          *)
(*                                                                         *)
(* JavaScript strings are sequences of one-character strings, so that      *)
(* includes, startsWith, slice, indexing, parseFloat, parseInt and         *)
(* JSON.parse are computed character by character.                         *)
(***************************************************************************)
EXTENDS Integers, Sequences, FiniteSets, TLC

\* ------------------------------------------------------------------------
\* JavaScript values
\* ------------------------------------------------------------------------
\* One record shape for every value: t is the type tag; a number is
\* sg * (n + 0.f) with f its fraction digits (no trailing zero); s holds the
\* characters of a string; a the elements of an array.
JsVal(t, sg, n, f, s, a) == [t |-> t, sg |-> sg, n |-> n, f |-> f, s |-> s, a |-> a]
JsUndefined == JsVal("undefined", 1, 0, <<>>, <<>>, <<>>)
JsNull == JsVal("null", 1, 0, <<>>, <<>>, <<>>)
JsNaN == JsVal("NaN", 1, 0, <<>>, <<>>, <<>>)
\* Infinity (sg = 1) and -Infinity (sg = -1).
JsInfinity(sg) == JsVal("Infinity", sg, 0, <<>>, <<>>, <<>>)
JsStr(s) == JsVal("string", 1, 0, <<>>, s, <<>>)
JsBool(b) == JsVal("boolean", 1, IF b THEN 1 ELSE 0, <<>>, <<>>, <<>>)
JsArr(a) == JsVal("array", 1, 0, <<>>, <<>>, a)

RECURSIVE StripZeros(_)
StripZeros(f) ==
    IF f = <<>> THEN <<>>
    ELSE IF f[Len(f)] = 0 THEN StripZeros(SubSeq(f, 1, Len(f) - 1)) ELSE f

\* A number, normalised: 1.0 and 1 are the same value, and -0 equals 0.
JsNum(sg, n, f) ==
    LET g == StripZeros(f)
    IN  JsVal("number", IF n = 0 /\ g = <<>> THEN 1 ELSE sg, n, g, <<>>, <<>>)
JsInt(n) == JsNum(IF n < 0 THEN -1 ELSE 1, IF n < 0 THEN -n ELSE n, <<>>)

\* JavaScript truthiness (the `||` of parseData and of the option merge).
Truthy(v) ==
    CASE v.t = "undefined" -> FALSE
      [] v.t = "null" -> FALSE
      [] v.t = "NaN" -> FALSE
      [] v.t = "boolean" -> v.n = 1
      [] v.t = "number" -> ~(v.n = 0 /\ v.f = <<>>)
      [] v.t = "string" -> v.s # <<>>
      [] OTHER -> TRUE

\* ------------------------------------------------------------------------
\* Characters
\* ------------------------------------------------------------------------
DigitChars == {"0", "1", "2", "3", "4", "5", "6", "7", "8", "9"}
SpaceChars == {" "}
DigitVal(ch) ==
    CASE ch = "0" -> 0 [] ch = "1" -> 1 [] ch = "2" -> 2 [] ch = "3" -> 3
      [] ch = "4" -> 4 [] ch = "5" -> 5 [] ch = "6" -> 6 [] ch = "7" -> 7
      [] ch = "8" -> 8 [] ch = "9" -> 9
HexChars == DigitChars \cup {"a", "b", "c", "d", "e", "f", "A", "B", "C", "D", "E", "F"}
HexVal(ch) ==
    CASE ch \in DigitChars -> DigitVal(ch)
      [] ch \in {"a", "A"} -> 10 [] ch \in {"b", "B"} -> 11
      [] ch \in {"c", "C"} -> 12 [] ch \in {"d", "D"} -> 13
      [] ch \in {"e", "E"} -> 14 [] ch \in {"f", "F"} -> 15
\* String.prototype.toLowerCase, one character.
LowerChar(ch) ==
    CASE ch = "A" -> "a" [] ch = "B" -> "b" [] ch = "C" -> "c" [] ch = "D" -> "d"
      [] ch = "E" -> "e" [] ch = "F" -> "f" [] ch = "G" -> "g" [] ch = "H" -> "h"
      [] ch = "I" -> "i" [] ch = "J" -> "j" [] ch = "K" -> "k" [] ch = "L" -> "l"
      [] ch = "M" -> "m" [] ch = "N" -> "n" [] ch = "O" -> "o" [] ch = "P" -> "p"
      [] ch = "Q" -> "q" [] ch = "R" -> "r" [] ch = "S" -> "s" [] ch = "T" -> "t"
      [] ch = "U" -> "u" [] ch = "V" -> "v" [] ch = "W" -> "w" [] ch = "X" -> "x"
      [] ch = "Y" -> "y" [] ch = "Z" -> "z" [] OTHER -> ch
ToLowerCase(s) == [i \in 1..Len(s) |-> LowerChar(s[i])]

\* String.prototype.startsWith and includes.
StartsWith(s, p) == Len(p) <= Len(s) /\ SubSeq(s, 1, Len(p)) = p
Includes(s, p) == \E i \in 1..(Len(s) - Len(p) + 1) : SubSeq(s, i, i + Len(p) - 1) = p
\* String.prototype.slice(k) for 0 <= k.
Slice(s, k) == IF k >= Len(s) THEN <<>> ELSE SubSeq(s, k + 1, Len(s))

\* First index >= i of s that holds no character of set (Len(s) + 1 if none).
RECURSIVE SkipChars(_, _, _)
SkipChars(s, i, set) ==
    IF i <= Len(s) /\ s[i] \in set THEN SkipChars(s, i + 1, set) ELSE i

\* Value of the decimal digits s[i..j-1], and of the hexadecimal ones.
RECURSIVE DecOf(_, _, _)
DecOf(s, i, j) == IF j <= i THEN 0 ELSE DecOf(s, i, j - 1) * 10 + DigitVal(s[j - 1])
RECURSIVE HexOf(_, _, _)
HexOf(s, i, j) == IF j <= i THEN 0 ELSE HexOf(s, i, j - 1) * 16 + HexVal(s[j - 1])
DigitSeq(s, i, j) == [k \in 1..(j - i) |-> DigitVal(s[i + k - 1])]

\* ------------------------------------------------------------------------
\* parseFloat, parseInt(_, 16), JSON.parse
\* ------------------------------------------------------------------------
\* parseFloat: leading white space, an optional sign, then the word Infinity
\* or the longest prefix digits [. digits] or . digits; NaN when there is
\* none.  Exponents are not modelled: no declared string of the model holds
\* one.
InfinityWord == <<"I", "n", "f", "i", "n", "i", "t", "y">>
ParseFloat(s) ==
    LET i0 == SkipChars(s, 1, SpaceChars)
        hasSign == i0 <= Len(s) /\ s[i0] \in {"+", "-"}
        sg == IF hasSign /\ s[i0] = "-" THEN -1 ELSE 1
        i1 == IF hasSign THEN i0 + 1 ELSE i0
        i2 == SkipChars(s, i1, DigitChars)
        hasDot == i2 <= Len(s) /\ s[i2] = "."
        i3 == IF hasDot THEN SkipChars(s, i2 + 1, DigitChars) ELSE i2
        nFrac == IF hasDot THEN i3 - (i2 + 1) ELSE 0
    IN  IF i1 + 7 <= Len(s) /\ SubSeq(s, i1, i1 + 7) = InfinityWord THEN JsInfinity(sg)
        ELSE IF (i2 - i1) + nFrac = 0 THEN JsNaN
        ELSE JsNum(sg, DecOf(s, i1, i2),
                   IF hasDot THEN DigitSeq(s, i2 + 1, i3) ELSE <<>>)

\* parseInt(s, 16): white space, sign, an optional 0x, the longest prefix of
\* hexadecimal digits; NaN when there is none.
ParseIntHex(s) ==
    LET i0 == SkipChars(s, 1, SpaceChars)
        hasSign == i0 <= Len(s) /\ s[i0] \in {"+", "-"}
        sg == IF hasSign /\ s[i0] = "-" THEN -1 ELSE 1
        i1 == IF hasSign THEN i0 + 1 ELSE i0
        has0x == i1 + 1 <= Len(s) /\ s[i1] = "0" /\ s[i1 + 1] \in {"x", "X"}
        i2 == IF has0x THEN i1 + 2 ELSE i1
        i3 == SkipChars(s, i2, HexChars)
    IN  IF i3 = i2 THEN JsNaN ELSE JsNum(sg, HexOf(s, i2, i3), <<>>)

\* JSON.parse on the grammar: white space, numbers, true, false, null and
\* arrays of these.  The result is [ok, v, next]; ok = FALSE is the
\* SyntaxError JSON.parse throws.  Strings and objects are not modelled: no
\* declared string of the model holds a well-formed one.
JsonFail == [ok |-> FALSE, v |-> JsUndefined, next |-> 0]
JsonNumber(s, i) ==
    LET neg == i <= Len(s) /\ s[i] = "-"
        i1 == IF neg THEN i + 1 ELSE i
        i2 == SkipChars(s, i1, DigitChars)
        leadingZero == i2 - i1 > 1 /\ s[i1] = "0"
        hasDot == i2 <= Len(s) /\ s[i2] = "."
        i3 == IF hasDot THEN SkipChars(s, i2 + 1, DigitChars) ELSE i2
    IN  IF i2 = i1 \/ leadingZero \/ (hasDot /\ i3 = i2 + 1) THEN JsonFail
        ELSE [ok |-> TRUE,
              v |-> JsNum(IF neg THEN -1 ELSE 1, DecOf(s, i1, i2),
                          IF hasDot THEN DigitSeq(s, i2 + 1, i3) ELSE <<>>),
              next |-> i3]
JsonWord(s, i, w, v) ==
    IF i + Len(w) - 1 <= Len(s) /\ SubSeq(s, i, i + Len(w) - 1) = w
    THEN [ok |-> TRUE, v |-> v, next |-> i + Len(w)] ELSE JsonFail

RECURSIVE JsonValue(_, _)
RECURSIVE JsonElements(_, _, _)
\* The elements of an array after its '[' or after a ',': acc holds those read.
JsonElements(s, i, acc) ==
    LET e == JsonValue(s, i)
        j == IF e.ok THEN SkipChars(s, e.next, SpaceChars) ELSE 0
    IN  IF ~e.ok \/ j > Len(s) THEN JsonFail
        ELSE IF s[j] = "]" THEN [ok |-> TRUE, v |-> JsArr(Append(acc, e.v)), next |-> j + 1]
        ELSE IF s[j] = "," THEN JsonElements(s, j + 1, Append(acc, e.v))
        ELSE JsonFail
JsonValue(s, i0) ==
    LET i == SkipChars(s, i0, SpaceChars)
    IN  IF i > Len(s) THEN JsonFail
        ELSE IF s[i] = "[" THEN
            LET j == SkipChars(s, i + 1, SpaceChars)
            IN  IF j <= Len(s) /\ s[j] = "]"
                THEN [ok |-> TRUE, v |-> JsArr(<<>>), next |-> j + 1]
                ELSE JsonElements(s, i + 1, <<>>)
        ELSE IF s[i] = "t" THEN JsonWord(s, i, <<"t", "r", "u", "e">>, JsBool(TRUE))
        ELSE IF s[i] = "f" THEN JsonWord(s, i, <<"f", "a", "l", "s", "e">>, JsBool(FALSE))
        ELSE IF s[i] = "n" THEN JsonWord(s, i, <<"n", "u", "l", "l">>, JsNull)
        ELSE JsonNumber(s, i)
JsonParse(s) ==
    LET r == JsonValue(s, 1)
    IN  IF r.ok /\ SkipChars(s, r.next, SpaceChars) > Len(s) THEN r ELSE JsonFail

\* ------------------------------------------------------------------------
\* parseData
\* ------------------------------------------------------------------------
\* An absent attribute: element.getAttribute returns null.
Absent == JsNull

S_speed == <<"s", "p", "e", "e", "d">>
S_amplitude == <<"a", "m", "p", "l", "i", "t", "u", "d", "e">>
S_length == <<"l", "e", "n", "g", "t", "h">>
S_road_width == <<"r", "o", "a", "d", "-", "w", "i", "d", "t", "h">>
S_width == <<"w", "i", "d", "t", "h">>
S_lines == <<"l", "i", "n", "e", "s">>
S_fov == <<"f", "o", "v">>
S_color == <<"c", "o", "l", "o", "r">>
S_cars == <<"c", "a", "r", "s">>
S_sticks == <<"s", "t", "i", "c", "k", "s">>
S_mouse_react == <<"m", "o", "u", "s", "e", "-", "r", "e", "a", "c", "t">>

\* The branch of parseData a key takes (the chain of key.includes tests).
IsNumericKey(key) ==
    \/ Includes(key, S_speed) \/ Includes(key, S_amplitude) \/ Includes(key, S_length)
    \/ Includes(key, S_road_width) \/ Includes(key, S_width) \/ Includes(key, S_lines)
    \/ Includes(key, S_fov)
IsColorKey(key) ==
    \/ Includes(key, S_color) \/ Includes(key, S_cars) \/ Includes(key, S_lines)
    \/ Includes(key, S_sticks)
IsBooleanKey(key) == Includes(key, S_mouse_react)

\* The body of the try block: [threw, v].
ParseDataTry(key, value) ==
    IF IsNumericKey(key) THEN [threw |-> FALSE, v |-> ParseFloat(value)]
    ELSE IF IsColorKey(key) THEN
        IF StartsWith(value, <<"[">>) \/ StartsWith(value, <<"{">>)
        THEN LET r == JsonParse(value) IN [threw |-> ~r.ok, v |-> r.v]
        ELSE [threw |-> FALSE, v |-> JsStr(value)]
    ELSE IF IsBooleanKey(key)
        THEN [threw |-> FALSE, v |-> JsBool(ToLowerCase(value) = <<"t", "r", "u", "e">>)]
    ELSE LET r == JsonParse(value) IN [threw |-> ~r.ok, v |-> r.v]

\* parseData(element, key, defaultValue), attr the result of getAttribute.
parseData(attr, key, defaultValue) ==
    IF attr = Absent THEN defaultValue
    ELSE LET r == ParseDataTry(key, attr.s)
         IN  IF r.threw
             THEN (IF Truthy(attr) THEN attr ELSE defaultValue)
             ELSE r.v

\* ------------------------------------------------------------------------
\* hexToColor and the colours the build stages hold
\* ------------------------------------------------------------------------
\* An 8-bit-per-channel colour as THREE.Color(number) decodes it
\* (r = hex >> 16 & 255, g = hex >> 8 & 255, b = hex & 255, each over 255).
Rgb(r, g, b) == <<r, g, b>>
ThreeWhite == Rgb(255, 255, 255)
\* new THREE.Color(v) with one argument: a number goes through setHex (NaN
\* shifts to 0); any value that is no colour, number or colour-style string
\* leaves the fresh colour at its initial white.
ThreeColor(v) ==
    CASE v.t = "number" -> Rgb((v.n \div 65536) % 256, (v.n \div 256) % 256, v.n % 256)
      [] v.t = "NaN" -> Rgb(0, 0, 0)
      [] OTHER -> ThreeWhite
hexToColor(hex) ==
    IF hex.t = "string" /\ StartsWith(hex.s, <<"0", "x">>)
        THEN ThreeColor(ParseIntHex(Slice(hex.s, 2)))
    ELSE IF hex.t = "string" /\ StartsWith(hex.s, <<"#">>)
        THEN ThreeColor(ParseIntHex(Slice(hex.s, 1)))
    ELSE ThreeColor(hex)

\* The palette CarLights.init and LightsSticks.init draw from.
Palette(colors) ==
    IF colors.t = "array" THEN [i \in 1..Len(colors.a) |-> hexToColor(colors.a[i])]
    ELSE <<hexToColor(colors)>>

\* v[i] for a zero-based index: an element of an array, a character of a
\* string, undefined otherwise.
JsIndex(v, i) ==
    CASE v.t = "array" /\ i < Len(v.a) -> v.a[i + 1]
      [] v.t = "string" /\ i < Len(v.s) -> JsStr(<<v.s[i + 1]>>)
      [] OTHER -> JsUndefined
\* new ogl.Color(colorVec[0], colorVec[1], colorVec[2]): with three arguments
\* the colour holds them as its components.
OglColor(colorVec) == <<JsIndex(colorVec, 0), JsIndex(colorVec, 1), JsIndex(colorVec, 2)>>

\* ------------------------------------------------------------------------
\* Attribute keys and the default tables
\* ------------------------------------------------------------------------
IridescenceKeys == {"color", "speed", "amplitude", "mouse-react"}
HyperNumericKeys ==
    {"length", "road-width", "island-width", "lanes-per-road", "fov", "fov-speed-up", "speed-up"}
HyperColorKeys ==
    {"left-cars", "right-cars", "shoulder-lines", "broken-lines", "road-color",
     "island-color", "background"}
HyperspeedKeys == HyperNumericKeys \cup HyperColorKeys \cup {"distortion"}
AttrKeys == IridescenceKeys \cup HyperspeedKeys

\* The attribute name 'data-<k>' as parseData receives it.
KeyChars(k) ==
    CASE k = "color" -> <<"d", "a", "t", "a", "-", "c", "o", "l", "o", "r">>
      [] k = "speed" -> <<"d", "a", "t", "a", "-", "s", "p", "e", "e", "d">>
      [] k = "amplitude" -> <<"d", "a", "t", "a", "-", "a", "m", "p", "l", "i", "t", "u", "d", "e">>
      [] k = "mouse-react" -> <<"d", "a", "t", "a", "-", "m", "o", "u", "s", "e", "-", "r", "e", "a", "c", "t">>
      [] k = "length" -> <<"d", "a", "t", "a", "-", "l", "e", "n", "g", "t", "h">>
      [] k = "road-width" -> <<"d", "a", "t", "a", "-", "r", "o", "a", "d", "-", "w", "i", "d", "t", "h">>
      [] k = "island-width" -> <<"d", "a", "t", "a", "-", "i", "s", "l", "a", "n", "d", "-", "w", "i", "d", "t", "h">>
      [] k = "lanes-per-road" -> <<"d", "a", "t", "a", "-", "l", "a", "n", "e", "s", "-", "p", "e", "r", "-", "r", "o", "a", "d">>
      [] k = "fov" -> <<"d", "a", "t", "a", "-", "f", "o", "v">>
      [] k = "fov-speed-up" -> <<"d", "a", "t", "a", "-", "f", "o", "v", "-", "s", "p", "e", "e", "d", "-", "u", "p">>
      [] k = "speed-up" -> <<"d", "a", "t", "a", "-", "s", "p", "e", "e", "d", "-", "u", "p">>
      [] k = "distortion" -> <<"d", "a", "t", "a", "-", "d", "i", "s", "t", "o", "r", "t", "i", "o", "n">>
      [] k = "left-cars" -> <<"d", "a", "t", "a", "-", "l", "e", "f", "t", "-", "c", "a", "r", "s">>
      [] k = "right-cars" -> <<"d", "a", "t", "a", "-", "r", "i", "g", "h", "t", "-", "c", "a", "r", "s">>
      [] k = "shoulder-lines" -> <<"d", "a", "t", "a", "-", "s", "h", "o", "u", "l", "d", "e", "r", "-", "l", "i", "n", "e", "s">>
      [] k = "broken-lines" -> <<"d", "a", "t", "a", "-", "b", "r", "o", "k", "e", "n", "-", "l", "i", "n", "e", "s">>
      [] k = "road-color" -> <<"d", "a", "t", "a", "-", "r", "o", "a", "d", "-", "c", "o", "l", "o", "r">>
      [] k = "island-color" -> <<"d", "a", "t", "a", "-", "i", "s", "l", "a", "n", "d", "-", "c", "o", "l", "o", "r">>
      [] k = "background" -> <<"d", "a", "t", "a", "-", "b", "a", "c", "k", "g", "r", "o", "u", "n", "d">>

TurbulentName == <<"t", "u", "r", "b", "u", "l", "e", "n", "t", "D", "i", "s", "t", "o", "r", "t", "i", "o", "n">>

defaultHyperspeedColors ==
    [roadColor |-> JsStr(<<"0", "x", "0", "8", "0", "8", "0", "8">>),
     islandColor |-> JsStr(<<"0", "x", "0", "a", "0", "a", "0", "a">>),
     background |-> JsStr(<<"0", "x", "0", "0", "0", "0", "0", "0">>),
     shoulderLines |-> JsStr(<<"0", "x", "F", "F", "F", "F", "F", "F">>),
     brokenLines |-> JsStr(<<"0", "x", "F", "F", "F", "F", "F", "F">>),
     leftCars |-> JsArr(<<JsStr(<<"0", "x", "D", "8", "5", "6", "B", "F">>),
                          JsStr(<<"0", "x", "6", "7", "5", "0", "A", "2">>),
                          JsStr(<<"0", "x", "C", "2", "4", "7", "A", "C">>)>>),
     rightCars |-> JsArr(<<JsStr(<<"0", "x", "0", "3", "B", "3", "C", "3">>),
                           JsStr(<<"0", "x", "0", "E", "5", "E", "A", "5">>),
                           JsStr(<<"0", "x", "3", "2", "4", "5", "5", "5">>)>>),
     sticks |-> JsStr(<<"0", "x", "0", "3", "B", "3", "C", "3">>)]

defaultHyperspeedOptions ==
    [length |-> JsInt(400),
     roadWidth |-> JsInt(10),
     islandWidth |-> JsInt(2),
     lanesPerRoad |-> JsInt(4),
     fov |-> JsInt(90),
     fovSpeedUp |-> JsInt(150),
     speedUp |-> JsInt(2),
     carLightsFade |-> JsNum(1, 0, <<4>>),
     totalSideLightSticks |-> JsInt(20),
     lightPairsPerRoadWay |-> JsInt(40),
     shoulderLinesWidthPercentage |-> JsNum(1, 0, <<0, 5>>),
     brokenLinesWidthPercentage |-> JsNum(1, 0, <<1>>),
     brokenLinesLengthPercentage |-> JsNum(1, 0, <<5>>),
     lightStickWidth |-> JsArr(<<JsNum(1, 0, <<1, 2>>), JsNum(1, 0, <<5>>)>>),
     lightStickHeight |-> JsArr(<<JsNum(1, 1, <<3>>), JsNum(1, 1, <<7>>)>>),
     movingAwaySpeed |-> JsArr(<<JsInt(60), JsInt(80)>>),
     movingCloserSpeed |-> JsArr(<<JsInt(-120), JsInt(-160)>>),
     carLightsLength |-> JsArr(<<JsInt(12), JsInt(80)>>),
     carLightsRadius |-> JsArr(<<JsNum(1, 0, <<0, 5>>), JsNum(1, 0, <<1, 4>>)>>),
     carWidthPercentage |-> JsArr(<<JsNum(1, 0, <<3>>), JsNum(1, 0, <<5>>)>>),
     carShiftX |-> JsArr(<<JsNum(-1, 0, <<8>>), JsNum(1, 0, <<8>>)>>),
     carFloorSeparation |-> JsArr(<<JsInt(0), JsInt(5)>>),
     distortion |-> JsStr(TurbulentName),
     colors |-> defaultHyperspeedColors]

\* The defaults the scan hands to parseData for an iridescence container.
defaultIridescenceOptions ==
    [color |-> JsArr(<<JsNum(1, 0, <<5>>), JsNum(1, 0, <<7>>), JsInt(1)>>),
     speed |-> JsNum(1, 0, <<7>>),
     amplitude |-> JsNum(1, 0, <<2>>),
     mouseReact |-> JsBool(TRUE)]

\* ------------------------------------------------------------------------
\* Option resolution of the scan, and the merge of the constructor
\* ------------------------------------------------------------------------
\* at maps the keys of AttrKeys to the attribute's string or to Absent.
PD(at, k, defaultValue) == parseData(at[k], KeyChars(k), defaultValue)

IridescenceScanOptions(at) ==
    [color |-> PD(at, "color", defaultIridescenceOptions.color),
     speed |-> PD(at, "speed", defaultIridescenceOptions.speed),
     amplitude |-> PD(at, "amplitude", defaultIridescenceOptions.amplitude),
     mouseReact |-> PD(at, "mouse-react", defaultIridescenceOptions.mouseReact)]

HyperspeedScanColors(at) ==
    [leftCars |-> PD(at, "left-cars", defaultHyperspeedColors.leftCars),
     rightCars |-> PD(at, "right-cars", defaultHyperspeedColors.rightCars),
     shoulderLines |-> PD(at, "shoulder-lines", defaultHyperspeedColors.shoulderLines),
     brokenLines |-> PD(at, "broken-lines", defaultHyperspeedColors.brokenLines),
     roadColor |-> PD(at, "road-color", defaultHyperspeedColors.roadColor),
     islandColor |-> PD(at, "island-color", defaultHyperspeedColors.islandColor),
     background |-> PD(at, "background", defaultHyperspeedColors.background)]

HyperspeedScanOptions(at) ==
    [length |-> PD(at, "length", JsInt(400)),
     roadWidth |-> PD(at, "road-width", JsInt(10)),
     islandWidth |-> PD(at, "island-width", JsInt(2)),
     lanesPerRoad |-> PD(at, "lanes-per-road", JsInt(4)),
     fov |-> PD(at, "fov", JsInt(90)),
     fovSpeedUp |-> PD(at, "fov-speed-up", JsInt(150)),
     speedUp |-> PD(at, "speed-up", JsInt(2)),
     distortion |-> PD(at, "distortion", JsStr(TurbulentName)),
     colors |-> HyperspeedScanColors(at)]

\* Object spread { ...a, ...b }: every own key of either, b's value winning.
Spread(a, b) ==
    [k \in DOMAIN a \cup DOMAIN b |-> IF k \in DOMAIN b THEN b[k] ELSE a[k]]

MergeColors(options) == Spread(defaultHyperspeedOptions.colors, options.colors)

\* An object the program holds by reference, named by where it comes from.
JsObj(s) == JsVal("object", 1, 0, <<>>, s, <<>>)
\* Members every object literal inherits from Object.prototype.
ObjectPrototypeKeys ==
    {<<"c", "o", "n", "s", "t", "r", "u", "c", "t", "o", "r">>,
     <<"t", "o", "S", "t", "r", "i", "n", "g">>}
\* distortions[key]: the table's one entry, an inherited member, or undefined.
DistortionLookup(key) ==
    IF key.t # "string" THEN JsUndefined
    ELSE IF key.s = TurbulentName THEN JsObj(TurbulentName)
    ELSE IF key.s \in ObjectPrototypeKeys THEN JsObj(key.s)
    ELSE JsUndefined
\* distortions[distortionKey] || distortions[defaultHyperspeedOptions.distortion]
SelectDistortion(v) ==
    LET distortionKey == IF Truthy(v) THEN v ELSE defaultHyperspeedOptions.distortion
        found == DistortionLookup(distortionKey)
    IN  IF Truthy(found) THEN found ELSE DistortionLookup(defaultHyperspeedOptions.distortion)

\* this.options of the HyperspeedApp constructor: the top-level spread, the
\* colours spread key by key, the distortion looked up in the table.
MergeOptions(options) ==
    LET mergedOptions == Spread(defaultHyperspeedOptions, options)
    IN  [mergedOptions EXCEPT !.colors = MergeColors(options),
                              !.distortion = SelectDistortion(mergedOptions.distortion)]

\* ------------------------------------------------------------------------
\* The page: libraries, containers, instances
\* ------------------------------------------------------------------------
Containers == {"c1", "c2"}
\* document.querySelectorAll order of the containers.
ContainerOrder == <<"c1", "c2">>
\* data-effect: the two effect names, and "none" for any other or no value.
Effects == {"iridescence", "hyperspeed", "none"}
LibNames == {"THREE", "POSTPROCESSING", "ogl"}
\* Layout size (width, height) of a container that is in the document.
BaseSize == <<8, 6>>
\* Sizes layout can give a container: the base size, a smaller one, one
\* collapsed to zero width.
HostSizes == {BaseSize, <<4, 3>>, <<0, 3>>}
DevicePixelRatios == {1, 2}
\* The containers page code of its own acts on (calls dispose() on the
\* instance of, removes from the document); the browser's events reach all.
PageTargets == {"c1"}

\* Calls counted on an instance before its render, update and setSize
\* counters wrap to 0 (the frame loop itself never ends); dispose() calls on
\* an instance and window resize events within one behaviour of the model.
MaxFrames == 3
MaxDispose == 2
MaxWindowResize == 1
\* Clock advances (by one frame period or by a background gap) within one
\* behaviour.
MaxAdvances == 2
\* Light pairs per roadway of the car-lights specification (the default
\* table has 40).
MaxPairs == 3

VARIABLES
    libs,         \* LibNames -> BOOLEAN: the globals the page's CDN links defined
    dpr,          \* window.devicePixelRatio
    phase,        \* "parsing": script not evaluated; "loaded"; "ready": DOMContentLoaded fired
    handlers,     \* the DOMContentLoaded listeners the script registered
    scriptThrew,  \* the script's top-level evaluation raised
    scroller,     \* [present: the page has the scroller elements, clicks: handlers registered]
    resizes,      \* window resize events dispatched so far
    dom,          \* per container: [effect, inDoc, size, children: its child nodes]
    attrs,        \* per container: AttrKeys -> the declared string, or Absent
    scanOptions,  \* per container: the options object the scan resolved from attrs
    inst,         \* per container: the effect object the scan built
    time,         \* [now: performance.now() in frame periods; advances: clock advances so far]
    lights,       \* a scene object of a Hyperspeed instance: [which, options, built,
                  \* set: the geometry init() built, uTime: its time uniform]
    strip,        \* the .assistance-container: [scrollLeft, scrollWidth, clientWidth, button]
    probe         \* one evaluation of the distortion: [progress, time, evaluated, js, gpu]

vars == <<libs, dpr, phase, handlers, scriptThrew, scroller, resizes, dom, attrs, scanOptions,
          inst, time, lights, strip, probe>>

NoOptions == [unset |-> TRUE]
NoColor == <<>>
NoLights == [which |-> "none", options |-> NoOptions, built |-> FALSE, set |-> NoOptions,
             uTime |-> [nan |-> FALSE, inf |-> 0, v |-> 0]]
\* The scroller strip of a page whose buttons are not being clicked, and the
\* distortion probe before its evaluation.
NoStrip == [scrollLeft |-> 0, scrollWidth |-> 0, clientWidth |-> 0, button |-> "none"]
NoProbe == [progress |-> 0, time |-> 0, evaluated |-> FALSE, js |-> <<>>, gpu |-> <<>>]

\* Numbers the frame loop computes with, in fixed point: [nan, v] with v the
\* value in units of 1/SpeedUnit (speeds, times in seconds) or of 1/FovUnit
\* (degrees), products truncated toward zero.  Time is counted in frame
\* periods of 1/60 s.
SpeedUnit == 10000000
FovUnit == 1000
FramesPerSecond == 60
MouseUnit == 1000
Fx(v) == [nan |-> FALSE, inf |-> 0, v |-> v]
FxNaN == [nan |-> TRUE, inf |-> 0, v |-> 0]
\* Infinity (sg = 1) and -Infinity (sg = -1).
FxInf(sg) == [nan |-> FALSE, inf |-> sg, v |-> 0]
\* a + b: Infinity + -Infinity is NaN.
FxAdd(a, b) ==
    IF a.nan \/ b.nan THEN FxNaN
    ELSE IF a.inf # 0 /\ b.inf # 0 THEN (IF a.inf = b.inf THEN a ELSE FxNaN)
    ELSE IF a.inf # 0 THEN a
    ELSE IF b.inf # 0 THEN b
    ELSE Fx(a.v + b.v)
FxNeg(a) == IF a.nan THEN a ELSE [a EXCEPT !.inf = -@, !.v = -@]
MulDiv(a, num, den) ==
    LET m == IF a < 0 THEN -a ELSE a
        q == (m \div den) * num + ((m % den) * num) \div den
    IN  IF a < 0 THEN -q ELSE q
RECURSIVE FracUnits(_, _)
FracUnits(f, unit) ==
    IF f = <<>> THEN 0 ELSE (f[1] * unit) \div 10 + FracUnits(Tail(f), unit \div 10)
\* A resolved numeric option (a number or NaN) in fixed point.
ToFixed(x, unit) ==
    IF x.t = "number" THEN Fx(x.sg * (x.n * unit + FracUnits(x.f, unit)))
    ELSE IF x.t = "Infinity" THEN FxInf(x.sg)
    ELSE FxNaN
\* a * num / den for num >= 0: Infinity * 0 is NaN.
FxScale(a, num, den) ==
    IF a.nan THEN FxNaN
    ELSE IF a.inf # 0 THEN (IF num = 0 THEN FxNaN ELSE a)
    ELSE Fx(MulDiv(a.v, num, den))
\* Seconds, in units of 1/SpeedUnit, of a count of frame periods.
Seconds(periods) == MulDiv(SpeedUnit, periods, FramesPerSecond)
HyperContainerEvents ==
    {"mousedown", "mouseup", "mouseout", "touchstart", "touchend", "touchcancel", "contextmenu"}
HyperListeners == {"resize"} \cup HyperContainerEvents

\* Fields of an effect object and of what it registered with the browser:
\*   status     "none" (no object), "aborted" (constructor returned early),
\*              "live" (built), "threw" (constructor raised into its caller)
\*   logged     console.error was called
\*   attached   the canvas is a child of the container
\*   listeners  listeners and observers registered and not removed
\*   roPending  a ResizeObserver notification is queued
\*   pending    queued requestAnimationFrame callbacks
\*   renders, updates, setSizes   render, update and setSize/setPixelRatio
\*              calls made, counted modulo MaxFrames + 1
\*   releases   renderer.dispose, composer.dispose and scene.clear calls made
\*   backing    canvas.width, canvas.height
\*   style      CSS size of the canvas: "percent" (100% of the container) or pixels
\*   aspect     camera.aspect as the pair width : height
\*   uColor     Iridescence base-colour uniform
\*   sceneColors  Hyperspeed colours as the scene holds them
\*   disposeCalls, errors   dispose() calls made on the object; exceptions they raised
\*   fovTarget, speedUpTarget   the easing targets (option values)
\*   speedUp, timeOffset, fov   this.speedUp, this.timeOffset, camera.fov
\*   oldTime, elapsed   clock.oldTime, clock.elapsedTime in frame periods
\*   uTime      the time value last pushed to the GPU programs
\*   steps      the steps the most recent frame callback took, in order
\*   meshes, instanced   meshes a render draws; instanced geometries among them
\*   uMouse     Iridescence pointer uniform, in units of 1/MouseUnit
\*   initSteps  what the constructor created or attached, in order
\*   programTime  the uTime uniform of each Hyperspeed program
NoInstance ==
    [kind |-> "none", status |-> "none", logged |-> FALSE, options |-> NoOptions,
     disposed |-> FALSE, attached |-> FALSE, listeners |-> {}, roPending |-> FALSE,
     pending |-> 0, renders |-> 0, updates |-> 0, setSizes |-> 0, releases |-> 0,
     backing |-> <<0, 0>>, style |-> "percent", aspect |-> <<0, 0>>, uColor |-> NoColor,
     sceneColors |-> NoOptions,
     disposeCalls |-> 0, errors |-> 0,
     fovTarget |-> JsUndefined, speedUpTarget |-> JsUndefined, speedUp |-> Fx(0),
     timeOffset |-> Fx(0), fov |-> Fx(0), oldTime |-> 0, elapsed |-> 0, uTime |-> Fx(0),
     steps |-> <<>>, meshes |-> 0, instanced |-> 0, uMouse |-> <<0, 0>>, initSteps |-> <<>>,
     programTime |-> NoOptions]

\* k more calls on a wrapping call counter.
Count(n, k) == (n + k) % (MaxFrames + 1)

\* Calls issued on the rendering backend (renderer, composer, scene).
BackendCalls(i) == <<i.renders, i.setSizes, i.releases>>

Scale(size, r) == <<size[1] * r, size[2] * r>>
\* offsetWidth/offsetHeight (and clientWidth/clientHeight) of a container: zero
\* once it is out of the document.
ContainerSize(d) == IF d.inDoc THEN d.size ELSE <<0, 0>>
\* clientWidth/clientHeight of the canvas.
CanvasClient(i, d) ==
    IF ~d.inDoc \/ ~i.attached THEN <<0, 0>>
    ELSE IF i.style = "percent" THEN d.size ELSE i.style

\* ------------------------------------------------------------------------
\* IridescenceEffect
\* ------------------------------------------------------------------------
\* init(): reads the ogl global (a ReferenceError when it is not defined),
\* creates the renderer, appends the canvas, builds geometry, program, mesh.
IridescenceInit(i, L) ==
    IF ~L["ogl"] THEN [i EXCEPT !.status = "threw"]
    ELSE [i EXCEPT !.attached = TRUE, !.uColor = OglColor(i.options.color),
                   !.meshes = 1, !.instanced = 0,
                   !.uMouse = <<MouseUnit \div 2, MouseUnit \div 2>>,
                   !.initSteps = <<"renderer", "attach", "geometry", "program">>]

\* The pointer uniform in units of 1/MouseUnit; getBoundingClientRect of a
\* container: its top-left corner at HostOrigin in client coordinates, its
\* layout size.
HostOrigin == <<2, 1>>
BoundingClientRect(d) ==
    LET size == ContainerSize(d)
    IN  [left |-> HostOrigin[1], top |-> HostOrigin[2], width |-> size[1], height |-> size[2]]
Max(a, b) == IF a >= b THEN a ELSE b

\* onPointerMove(e): mousePos and the uMouse uniform take the new position.
IridescenceOnPointerMove(i, d, clientX, clientY) ==
    LET rect == BoundingClientRect(d)
        x == MulDiv(clientX - rect.left, MouseUnit, Max(rect.width, 1))
        y == MouseUnit - MulDiv(clientY - rect.top, MouseUnit, Max(rect.height, 1))
    IN  [i EXCEPT !.uMouse = <<x, y>>]

\* setupListeners() registering onPointerMove whatever options.mouseReact is.
IridescenceSetupListenersAlways(i) ==
    [i EXCEPT !.listeners = {"pointermove", "resizeObserver"}, !.roPending = TRUE]

\* setupListeners(): the pointer listener when options.mouseReact is truthy,
\* the ResizeObserver always.
IridescenceSetupListeners(i) ==
    [i EXCEPT !.listeners = (IF Truthy(i.options.mouseReact) THEN {"pointermove"} ELSE {})
                            \cup {"resizeObserver"},
              !.roPending = TRUE]

\* resize(): w = clientWidth || 1, h = clientHeight || 1; the ogl renderer is
\* built with its default dpr of 1.
IridescenceResize(i, d) ==
    LET size == ContainerSize(d)
        w == IF size[1] = 0 THEN 1 ELSE size[1]
        h == IF size[2] = 0 THEN 1 ELSE size[2]
    IN  [i EXCEPT !.setSizes = Count(@, 1), !.backing = <<w, h>>, !.aspect = <<w, h>>]

\* update(now) with a second render of the mesh.
IridescenceUpdateTwoPasses(i, now) ==
    [i EXCEPT !.pending = @ + 1, !.uTime = Fx(Seconds(now)), !.renders = Count(@, 2),
              !.steps = <<"schedule", "update", "render", "render">>]

\* update(now): schedules the next frame first, then sets uTime = now * 0.001
\* and renders.
IridescenceUpdate(i, now) ==
    [i EXCEPT !.pending = @ + 1, !.uTime = Fx(Seconds(now)), !.renders = Count(@, 1),
              !.steps = <<"schedule", "update", "render">>]

\* The constructor without its library check.
IridescenceCtorUnchecked(d, options, L) ==
    LET i1 == IridescenceInit([NoInstance EXCEPT !.kind = "iridescence", !.options = options,
                                                 !.status = "live"], L)
    IN  IF i1.status = "threw" THEN i1
        ELSE IridescenceUpdate(IridescenceResize(IridescenceSetupListeners(i1), d), 0)

IridescenceCtor(d, options, L) ==
    LET i0 == [NoInstance EXCEPT !.kind = "iridescence", !.options = options]
    IN  IF ~L["ogl"] THEN [i0 EXCEPT !.status = "aborted", !.logged = TRUE]
        ELSE LET i1 == IridescenceInit([i0 EXCEPT !.status = "live"], L)
             IN  IF i1.status = "threw" THEN i1
                 ELSE IridescenceUpdate(IridescenceResize(IridescenceSetupListeners(i1), d), 0)

\* ------------------------------------------------------------------------
\* HyperspeedApp
\* ------------------------------------------------------------------------
\* lerp(current, target, speed, limit), speed the fraction <<num, den>>.
lerp(current, target, speed, limit) ==
    IF current.nan \/ target.nan THEN FxNaN
    ELSE IF current.inf # 0 \/ target.inf # 0
    THEN FxScale(FxAdd(target, FxNeg(current)), speed[1], speed[2])
    ELSE LET change == MulDiv(target.v - current.v, speed[1], speed[2])
         IN  Fx(IF (IF change < 0 THEN -change ELSE change) < limit
                THEN target.v - current.v ELSE change)

\* A frame gap of the page in the background, in frame periods (2 s).
BackgroundGap == 120
\* Math.exp(-(-60 * Math.log2(1 - 0.1)) * delta) as a fraction, for the frame
\* gaps of the model: exp(0) = 1, exp(-9.12 / 60) = 0.859, exp(-18.24) = 1.2e-8.
LerpPercentage(delta) ==
    IF delta = 0 THEN <<1, 1>>
    ELSE IF delta < BackgroundGap THEN <<859, 1000>>
    ELSE <<1, 83500000>>

\* The objects update(time) is called on, each setting the uTime uniform of
\* its program (the three planes of the road share one).
HyperPrograms == {"rightCarLights", "leftCarLights", "leftSticks", "road"}

\* update(delta) with timeOffset advanced by the speedUp of the frame before.
HyperUpdateStaleSpeedUp(i, delta) ==
    LET lerpPercentage == LerpPercentage(delta)
        speedUp == FxAdd(i.speedUp, lerp(i.speedUp, ToFixed(i.speedUpTarget, SpeedUnit),
                                         lerpPercentage, SpeedUnit \div 100000))
        timeOffset == FxAdd(i.timeOffset,
                            IF i.speedUp.nan THEN FxNaN
                            ELSE Fx(MulDiv(i.speedUp.v, delta, FramesPerSecond)))
    IN  [i EXCEPT !.speedUp = speedUp,
                  !.timeOffset = timeOffset,
                  !.uTime = FxAdd(Fx(Seconds(i.elapsed)), timeOffset),
                  !.programTime = [p \in HyperPrograms |->
                                      FxAdd(Fx(Seconds(i.elapsed)), timeOffset)],
                  !.updates = Count(@, 1),
                  !.steps = Append(@, "update")]

\* update(delta), delta in frame periods.
HyperUpdate(i, delta) ==
    LET lerpPercentage == LerpPercentage(delta)
        speedUp == FxAdd(i.speedUp, lerp(i.speedUp, ToFixed(i.speedUpTarget, SpeedUnit),
                                         lerpPercentage, SpeedUnit \div 100000))
        timeOffset == FxAdd(i.timeOffset, FxScale(speedUp, delta, FramesPerSecond))
        fovChange == lerp(i.fov, ToFixed(i.fovTarget, FovUnit), lerpPercentage,
                          FovUnit \div 1000)
    IN  [i EXCEPT !.speedUp = speedUp,
                  !.timeOffset = timeOffset,
                  !.uTime = FxAdd(Fx(Seconds(i.elapsed)), timeOffset),
                  !.programTime = [p \in HyperPrograms |->
                                      FxAdd(Fx(Seconds(i.elapsed)), timeOffset)],
                  !.fov = IF fovChange = Fx(0) THEN @
                          ELSE IF fovChange.nan THEN FxNaN
                          ELSE FxAdd(@, Fx(MulDiv(fovChange.v, delta * 6, FramesPerSecond))),
                  !.updates = Count(@, 1),
                  !.steps = Append(@, "update")]

\* tick() past its disposed check, ending without a request for the next
\* frame.
HyperTickBodyNoRequest(i, d, r, now) ==
    LET client == CanvasClient(i, d)
        needResize == i.backing # client
        delta == now - i.oldTime
        j == IF needResize
             THEN [i EXCEPT !.setSizes = Count(@, 1), !.backing = Scale(client, r),
                            !.aspect = client]
             ELSE i
        k == [j EXCEPT !.oldTime = now, !.elapsed = @ + delta, !.renders = Count(@, 1),
                       !.steps = <<"resize check", "render">>]
    IN  HyperUpdate(k, delta)

\* tick() past its disposed check: the resize check, clock.getDelta(),
\* render, update and the request for the next frame.  setSize(w, h, false)
\* sets the backing store to the size times the pixel ratio.
HyperTickBody(i, d, r, now) ==
    LET client == CanvasClient(i, d)
        needResize == i.backing # client
        delta == now - i.oldTime
        j == IF needResize
             THEN [i EXCEPT !.setSizes = Count(@, 1), !.backing = Scale(client, r),
                            !.aspect = client]
             ELSE i
        k == [j EXCEPT !.oldTime = now, !.elapsed = @ + delta, !.renders = Count(@, 1),
                       !.steps = <<"resize check", "render">>]
    IN  [HyperUpdate(k, delta) EXCEPT !.pending = @ + 1, !.steps = Append(@, "schedule")]

\* tick() without the disposed check.
HyperTickUnchecked(i, d, r, now) == HyperTickBody(i, d, r, now)

\* tick(): nothing once disposed.
HyperTick(i, d, r, now) ==
    IF i.disposed THEN [i EXCEPT !.steps = <<>>] ELSE HyperTickBody(i, d, r, now)

HyperSetupListeners(i) == [i EXCEPT !.listeners = HyperListeners]

\* The colours the scene is built with: the fog colour of the constructor,
\* the uniforms of Road.createPlane, the palettes of CarLights.init and
\* LightsSticks.init.
HyperSceneColors(colors) ==
    [background |-> hexToColor(colors.background),
     roadColor |-> hexToColor(colors.roadColor),
     islandColor |-> hexToColor(colors.islandColor),
     brokenLines |-> hexToColor(colors.brokenLines),
     shoulderLines |-> hexToColor(colors.shoulderLines),
     leftCars |-> Palette(colors.leftCars),
     rightCars |-> Palette(colors.rightCars),
     sticks |-> Palette(colors.sticks)]

\* onWindowResize: renderer.setSize(width, height) and composer.setSize(width,
\* height), both also writing the canvas style in pixels.
HyperOnWindowResize(i, d, r) ==
    LET size == ContainerSize(d)
    IN  [i EXCEPT !.setSizes = Count(@, 2), !.backing = Scale(size, r), !.style = size,
                  !.aspect = size]

\* What initSceneObjects creates, in order: road.init() three planes, the
\* two CarLights.init(), LightsSticks.init(), each a geometry and then the
\* ShaderMaterial of its program.
RECURSIVE SceneObjectSteps(_)
SceneObjectSteps(n) ==
    IF n = 0 THEN <<>> ELSE <<"geometry", "program">> \o SceneObjectSteps(n - 1)

\* The constructor: the library check; the option merge; renderer.setSize and
\* setPixelRatio; the canvas appended; listeners; the first tick().
HyperspeedCtor(d, options, L, r, now) ==
    LET i0 == [NoInstance EXCEPT !.kind = "hyperspeed"]
        size == ContainerSize(d)
    IN  IF ~L["THREE"] \/ ~L["POSTPROCESSING"]
        THEN [i0 EXCEPT !.status = "aborted", !.logged = TRUE]
        ELSE CHOOSE built \in
                 {HyperTick(HyperSetupListeners(i1), d, r, now) :
                     i1 \in {[i0 EXCEPT !.status = "live", !.options = merged,
                                        !.sceneColors = HyperSceneColors(merged.colors),
                                        !.setSizes = Count(0, 2), !.backing = Scale(size, r),
                                        !.attached = TRUE, !.aspect = size,
                                        !.fov = ToFixed(merged.fov, FovUnit),
                                        !.fovTarget = merged.fov,
                                        !.speedUpTarget = JsInt(0),
                                        !.meshes = 6, !.instanced = 3,
                                        !.programTime = [p \in HyperPrograms |-> Fx(0)],
                                        !.initSteps = <<"renderer", "attach">>
                                                          \o SceneObjectSteps(6),
                                        !.oldTime = now] :
                                 merged \in {MergeOptions(options)}}} : TRUE

\* onMouseDown and onMouseUp.
HyperOnMouseDown(i) ==
    [i EXCEPT !.fovTarget = i.options.fovSpeedUp, !.speedUpTarget = i.options.speedUp]
HyperOnMouseUp(i) == [i EXCEPT !.fovTarget = i.options.fov, !.speedUpTarget = JsInt(0)]

\* The event dispatch with mouseout bound to the press listener.
HyperDispatchMouseoutPress(i, e) ==
    CASE e = "mousedown" -> HyperOnMouseDown(i)
      [] e = "mouseup" -> HyperOnMouseUp(i)
      [] e = "mouseout" -> HyperOnMouseDown(i)
      [] e = "touchstart" -> HyperOnMouseDown(i)
      [] e = "touchend" -> HyperOnMouseUp(i)
      [] e = "touchcancel" -> HyperOnMouseUp(i)
      [] OTHER -> i

\* The listener setupListeners registered for a container event.
PressEvents == {"mousedown", "touchstart"}
ReleaseEvents == {"mouseup", "mouseout", "touchend", "touchcancel"}
HyperDispatch(i, e) ==
    CASE e = "mousedown" -> HyperOnMouseDown(i)
      [] e = "mouseup" -> HyperOnMouseUp(i)
      [] e = "mouseout" -> HyperOnMouseUp(i)
      [] e = "touchstart" -> HyperOnMouseDown(i)
      [] e = "touchend" -> HyperOnMouseUp(i)
      [] e = "touchcancel" -> HyperOnMouseUp(i)
      [] OTHER -> i

\* dispose() on a built instance.
HyperDispose(i) ==
    [i EXCEPT !.disposed = TRUE, !.releases = @ + 3,
              !.listeners = @ \ HyperListeners, !.attached = FALSE]

\* instance.dispose() as page code calls it.  IridescenceEffect defines no
\* dispose, so the call raises a TypeError; on a HyperspeedApp whose
\* constructor returned early, this.container is undefined and the first
\* this.container.removeEventListener raises one after disposed is set.
DisposeOf(i) ==
    LET j == [i EXCEPT !.disposeCalls = @ + 1]
    IN  IF i.kind = "hyperspeed" /\ i.status = "live" THEN HyperDispose(j)
        ELSE IF i.kind = "hyperspeed"
            THEN [j EXCEPT !.disposed = TRUE, !.errors = @ + 1]
        ELSE [j EXCEPT !.errors = @ + 1]

\* The frame callback the browser runs for an instance.
FrameOf(i, d, r, now) ==
    LET j == [i EXCEPT !.pending = @ - 1]
    IN  IF i.kind = "hyperspeed" THEN HyperTick(j, d, r, now) ELSE IridescenceUpdate(j, now)

\* ------------------------------------------------------------------------
\* The turbulent distortion
\* ------------------------------------------------------------------------
\* Angles are in units of PI / HalfTurn, progress in units of 1 / HalfTurn
\* (so PI * progress * freq is progress * freq angle units), values of the
\* trigonometric functions and the offsets in units of 1 / TrigUnit.
HalfTurn == 2000
TrigUnit == 10000
\* cos at the multiples of PI / 40 from 0 to PI / 2, to four decimals.
CosTable == <<10000, 9969, 9877, 9724, 9511, 9239, 8910, 8526,
              8090, 7604, 7071, 6494, 5878, 5225, 4540, 3827, 3090, 2334, 1564, 785, 0>>
CosTableStep == 50
\* Math.cos / cos: the table, interpolated linearly, with the symmetries of
\* the cosine (exact to 0.001).
CosQuarter(a) ==
    LET k == a \div CosTableStep
        r == a % CosTableStep
    IN  IF r = 0 THEN CosTable[k + 1]
        ELSE CosTable[k + 1] - ((CosTable[k + 1] - CosTable[k + 2]) * r) \div CosTableStep
Cos(a) ==
    LET b == a % (2 * HalfTurn)
        c == IF b > HalfTurn THEN 2 * HalfTurn - b ELSE b
    IN  IF 2 * c > HalfTurn THEN -CosQuarter(HalfTurn - c) ELSE CosQuarter(c)
Sin(a) == Cos(a - HalfTurn \div 2)
\* Math.pow(x, n) / pow(x, n) for the exponents 2 and 5.
RECURSIVE Pow(_, _)
Pow(x, n) == IF n = 0 THEN TrigUnit ELSE MulDiv(Pow(x, n - 1), x, TrigUnit)
nsin(val) == Sin(val) \div 2 + TrigUnit \div 2

\* uFreq = (4, 8, 8, 1) and uAmp = (25, 5, 10, 10): GLSL reads the components
\* as r, g, b, a and the script as x, y, z, w.
turbulentUniforms == [uFreq |-> <<4, 8, 8, 1>>, uAmp |-> <<25, 5, 10, 10>>]

\* The GLSL of the strategy, uTime the time uniform of the program.
getDistortionX(progress, uTime) ==
    LET uFreq == turbulentUniforms.uFreq
        uAmp == turbulentUniforms.uAmp
    IN  Cos(progress * uFreq[1] + uTime) * uAmp[1]
        + Pow(Cos(progress * uFreq[2] + uTime * (uFreq[2] \div uFreq[1])), 2) * uAmp[2]
getDistortionY(progress, uTime) ==
    LET uFreq == turbulentUniforms.uFreq
        uAmp == turbulentUniforms.uAmp
    IN  -(nsin(progress * uFreq[3] + uTime) * uAmp[3])
        + -(Pow(nsin(progress * uFreq[4] + uTime \div (uFreq[3] \div uFreq[4])), 5) * uAmp[4])
\* 0.0125 of the travel axis.
GpuReference == HalfTurn \div 80
getDistortion(progress, uTime) ==
    <<getDistortionX(progress, uTime) - getDistortionX(GpuReference, uTime),
      getDistortionY(progress, uTime) - getDistortionY(GpuReference, uTime),
      0>>

\* getJS(progress, time), t its time argument, and its two inner functions.
getX(p, t) ==
    LET uFreq == turbulentUniforms.uFreq
        uAmp == turbulentUniforms.uAmp
    IN  Cos(p * uFreq[1] + t) * uAmp[1]
        + Pow(Cos(p * uFreq[2] + t * (uFreq[2] \div uFreq[1])), 2) * uAmp[2]
getY(p, t) ==
    LET uFreq == turbulentUniforms.uFreq
        uAmp == turbulentUniforms.uAmp
    IN  -(nsin(p * uFreq[3] + t) * uAmp[3])
        - Pow(nsin(p * uFreq[4] + t \div (uFreq[3] \div uFreq[4])), 5) * uAmp[4]
\* 0.007 of the travel axis.
JsLookAhead == (HalfTurn * 7) \div 1000
getJS(progress, t) ==
    LET distortion == <<getX(progress, t) - getX(progress + JsLookAhead, t),
                        getY(progress, t) - getY(progress + JsLookAhead, t),
                        0>>
        lookAtAmp == <<-2, -5, 0>>
        lookAtOffset == <<0, 0, -10 * TrigUnit>>
    IN  [k \in 1..3 |-> distortion[k] * lookAtAmp[k] + lookAtOffset[k]]

\* ------------------------------------------------------------------------
\* CarLights
\* ------------------------------------------------------------------------
\* Lengths of the scene in units of 1/CarUnit; a value u of Math.random() in
\* the same units (0 <= u < CarUnit).
CarUnit == 1000
random(base, u) ==
    IF base.t = "array"
    THEN LET lo == ToFixed(base.a[1], CarUnit).v
             hi == ToFixed(base.a[2], CarUnit).v
         IN  MulDiv(hi - lo, u, CarUnit) + lo
    ELSE MulDiv(ToFixed(base, CarUnit).v, u, CarUnit)
pickRandom(arr, u) == arr[(u * Len(arr)) \div CarUnit + 1]

\* The Math.random() values one iteration of the loop of init() draws: the
\* car width and the lane shift each at either end of [0, 1), the others
\* together at either end.
CarDraws ==
    {[radius |-> o, length |-> o, speed |-> o, width |-> w, shift |-> s, y |-> o, z |-> o,
      color |-> o] : o \in {0, CarUnit - 1}, w \in {0, CarUnit - 1}, s \in {0, CarUnit - 1}}

\* One iteration of the loop of init(): what it pushes on the three arrays.
CarLightsPair(options, colors, speed, i, d) ==
    LET roadWidth == ToFixed(options.roadWidth, CarUnit).v
        laneWidth == roadWidth \div options.lanesPerRoad.n
        radius == random(options.carLightsRadius, d.radius)
        length == random(options.carLightsLength, d.length)
        carSpeed == random(speed, d.speed)
        carLane == i % options.lanesPerRoad.n
        carWidth == MulDiv(random(options.carWidthPercentage, d.width), laneWidth, CarUnit)
        carShiftX == MulDiv(random(options.carShiftX, d.shift), laneWidth, CarUnit)
        laneX == carLane * laneWidth - roadWidth \div 2 + laneWidth \div 2 + carShiftX
        offsetY == random(options.carFloorSeparation, d.y) + MulDiv(radius, 13, 10)
        offsetZ == -random(options.length, d.z)
        color == pickRandom(colors, d.color)
    IN  [aOffset |-> <<laneX - carWidth \div 2, offsetY, offsetZ,
                       laneX + carWidth \div 2, offsetY, offsetZ>>,
         aMetrics |-> <<radius, length, carSpeed, radius, length, carSpeed>>,
         aColor |-> <<color[1], color[2], color[3], color[1], color[2], color[3]>>]

\* The loop of init(): the three attribute arrays, draws[i + 1] the random
\* values of iteration i.
CarLightsLoop(options, colors, speed, draws) ==
    LET n == options.lightPairsPerRoadWay.n
        Pushed(k) == CarLightsPair(options, colors, speed, (k - 1) \div 6, draws[(k - 1) \div 6 + 1])
        Slot(k) == ((k - 1) % 6) + 1
    IN  [aOffset |-> [k \in 1..(6 * n) |-> Pushed(k).aOffset[Slot(k)]],
         aMetrics |-> [k \in 1..(6 * n) |-> Pushed(k).aMetrics[Slot(k)]],
         aColor |-> [k \in 1..(6 * n) |-> Pushed(k).aColor[Slot(k)]]]

\* init() with one instance per pair.
CarLightsInitCountPairs(options, colors, speed, draws) ==
    [instanceCount |-> options.lightPairsPerRoadWay.n] @@ CarLightsLoop(options, colors, speed, draws)

\* init(): the instance count and the attribute arrays of the geometry.
CarLightsInit(options, colors, speed, draws) ==
    [instanceCount |-> options.lightPairsPerRoadWay.n * 2]
        @@ CarLightsLoop(options, colors, speed, draws)

\* ------------------------------------------------------------------------
\* LightsSticks, and the scene object the model follows
\* ------------------------------------------------------------------------
\* LightsSticks.init() for two sticks or more: one offset, three colour
\* components and two metrics per stick; draws[i + 1] the random values of
\* iteration i (width, length for the height, z for the offset, color).
LightsSticksInit(options, colors, draws) ==
    LET totalSticks == options.totalSideLightSticks.n
        stickoffset == ToFixed(options.length, CarUnit).v \div (totalSticks - 1)
    IN  [instanceCount |-> totalSticks,
         aOffset |-> [k \in 1..totalSticks |->
                         (k - 2) * stickoffset * 2 + MulDiv(stickoffset, draws[k].z, CarUnit)],
         aColor |-> [k \in 1..(3 * totalSticks) |->
                        pickRandom(colors, draws[(k - 1) \div 3 + 1].color)[((k - 1) % 3) + 1]],
         aMetrics |-> [k \in 1..(2 * totalSticks) |->
                          IF k % 2 = 1
                          THEN random(options.lightStickWidth, draws[(k - 1) \div 2 + 1].width)
                          ELSE random(options.lightStickHeight, draws[(k - 1) \div 2 + 1].length)]]

\* The scene objects with per-instance attribute arrays, and the container
\* whose instance the followed object belongs to.
SceneObjects == {"leftCarLights", "rightCarLights", "leftSticks"}
SceneHost == "c1"
\* init() of the followed object, as initSceneObjects calls it.
SceneObjectInit(l, draws) ==
    CASE l.which = "leftCarLights" ->
             CarLightsInit(l.options, Palette(l.options.colors.leftCars),
                           l.options.movingAwaySpeed, draws)
      [] l.which = "rightCarLights" ->
             CarLightsInit(l.options, Palette(l.options.colors.rightCars),
                           l.options.movingCloserSpeed, draws)
      [] l.which = "leftSticks" ->
             LightsSticksInit(l.options, Palette(l.options.colors.sticks), draws)
\* The followed object once the constructor of instance i has run.
SceneObjectBuilt(l, i, draws) ==
    IF l.which = "none" \/ i.kind # "hyperspeed" \/ i.status # "live" THEN l
    ELSE [l EXCEPT !.built = TRUE, !.set = SceneObjectInit(l, draws)]
\* The Math.random() values of one init(): every iteration drawing alike,
\* all values at the low end of [0, 1) or all at the high end.
SceneDraws(l) ==
    IF l.which = "none" THEN {<<>>}
    ELSE {[k \in 1..l.options.lightPairsPerRoadWay.n |-> d] :
             d \in {e \in CarDraws : e.width = e.radius /\ e.shift = e.radius}}

\* update(time) of a CarLights or LightsSticks object that also moves the
\* offsets of its instances.
SceneObjectUpdateMoving(l, t) ==
    [l EXCEPT !.uTime = t, !.set.aOffset = [k \in DOMAIN @ |-> @[k] + 1]]

\* update(time) of a CarLights or LightsSticks object.
SceneObjectUpdate(l, t) == [l EXCEPT !.uTime = t]

\* ------------------------------------------------------------------------
\* Script evaluation and DOMContentLoaded
\* ------------------------------------------------------------------------
\* Top-level evaluation: turbulentUniforms and the shader templates read the
\* THREE global before the DOMContentLoaded listeners are registered.
ScriptLoad ==
    /\ phase = "parsing"
    /\ phase' = "loaded"
    /\ IF libs["THREE"]
       THEN /\ handlers' = {"scan", "scroller"}
            /\ scriptThrew' = FALSE
       ELSE /\ handlers' = {}
            /\ scriptThrew' = TRUE
    /\ UNCHANGED <<libs, dpr, scroller, resizes, dom, attrs, scanOptions, inst, time, lights, strip, probe>>

\* The options object the scan resolves for one container.
ScanOptions(c) ==
    IF dom[c].effect = "iridescence" THEN IridescenceScanOptions(attrs[c])
    ELSE IF dom[c].effect = "hyperspeed" THEN HyperspeedScanOptions(attrs[c])
    ELSE NoOptions

\* The object the scan builds for one container from its resolved options.
BuildEffect(c, options) ==
    IF dom[c].effect = "iridescence" THEN IridescenceCtor(dom[c], options, libs)
    ELSE IF dom[c].effect = "hyperspeed" THEN HyperspeedCtor(dom[c], options, libs, dpr, time.now)
    ELSE NoInstance

\* The containers the forEach of the scan visits before c.
Before(c) ==
    {ContainerOrder[j] : j \in {k \in 1..Len(ContainerOrder) :
                                   \E m \in (k + 1)..Len(ContainerOrder) : ContainerOrder[m] = c}}
\* The scan visits the containers that are in the document, in order; a
\* constructor that raises ends the forEach.  built[e] is the object the
\* constructor yields for container e.
Visited(c, built) ==
    dom[c].inDoc /\ ~\E e \in Before(c) : dom[e].inDoc /\ built[e].status = "threw"
ScanResult(c, built) == IF Visited(c, built) THEN built[c] ELSE NoInstance
\* The children of a container after the scan: a visited one lost those it
\* had and holds the canvas its constructor appended.
ScanChildren(c, built) ==
    IF Visited(c, built) THEN (IF built[c].attached THEN 1 ELSE 0) ELSE dom[c].children

\* The DOMContentLoaded dispatch: the scan listener, then the scroller one.
DOMContentLoaded ==
    /\ phase = "loaded"
    /\ phase' = "ready"
    /\ IF "scan" \in handlers
       THEN /\ scanOptions' = [c \in Containers |->
                                  IF dom[c].inDoc THEN ScanOptions(c) ELSE NoOptions]
            /\ \E built \in {[c \in Containers |->
                                 IF dom[c].inDoc THEN BuildEffect(c, scanOptions'[c])
                                 ELSE NoInstance]} :
                   /\ inst' = [c \in Containers |-> ScanResult(c, built)]
                   /\ dom' = [c \in Containers |->
                                 [dom[c] EXCEPT !.children = ScanChildren(c, built)]]
                   /\ \E draws \in SceneDraws(lights) :
                          lights' = SceneObjectBuilt(lights, ScanResult(SceneHost, built), draws)
       ELSE UNCHANGED <<scanOptions, inst, dom, lights>>
    /\ scroller' = IF "scroller" \in handlers /\ scroller.present
                   THEN [scroller EXCEPT !.clicks = TRUE] ELSE scroller
    /\ UNCHANGED <<libs, dpr, handlers, scriptThrew, resizes, attrs, time, strip, probe>>

\* ------------------------------------------------------------------------
\* Browser events after the scan
\* ------------------------------------------------------------------------
Frame(c) ==
    /\ inst[c].pending > 0
    /\ inst' = [inst EXCEPT ![c] = FrameOf(inst[c], dom[c], dpr, time.now)]
    /\ lights' = IF lights.built /\ c = SceneHost /\ ~inst[c].disposed
                 THEN SceneObjectUpdate(lights, inst'[c].programTime[lights.which])
                 ELSE lights
    /\ UNCHANGED <<libs, dpr, phase, handlers, scriptThrew, scroller, resizes, dom, attrs, scanOptions, time, strip, probe>>

DisposeCall(c) ==
    /\ inst[c].status \in {"live", "aborted"}
    /\ inst[c].disposeCalls < MaxDispose
    /\ inst' = [inst EXCEPT ![c] = DisposeOf(inst[c])]
    /\ dom' = [dom EXCEPT ![c].children =
                   IF inst[c].attached /\ ~inst'[c].attached THEN @ - 1 ELSE @]
    /\ UNCHANGED <<libs, dpr, phase, handlers, scriptThrew, scroller, resizes, attrs, scanOptions, time, lights, strip, probe>>

\* The page removes a container from the document.
RemoveContainer(c) ==
    /\ dom[c].inDoc
    /\ dom' = [dom EXCEPT ![c].inDoc = FALSE]
    /\ inst' = [inst EXCEPT ![c].roPending = @ \/ ("resizeObserver" \in inst[c].listeners)]
    /\ UNCHANGED <<libs, dpr, phase, handlers, scriptThrew, scroller, resizes, attrs, scanOptions, time, lights, strip, probe>>

\* The page inserts a container and a listener that scans it on insertion
\* builds its effect.
AddContainerScanned(c) ==
    /\ ~dom[c].inDoc
    /\ \E d \in {[dom[c] EXCEPT !.inDoc = TRUE]} :
          \E built \in {IF d.effect = "iridescence" THEN IridescenceCtor(d, ScanOptions(c), libs)
                         ELSE IF d.effect = "hyperspeed"
                             THEN HyperspeedCtor(d, ScanOptions(c), libs, dpr, time.now)
                         ELSE inst[c]} :
              /\ inst' = [inst EXCEPT ![c] = built]
              /\ dom' = [dom EXCEPT ![c] = [d EXCEPT !.children = IF built.attached THEN @ + 1 ELSE @]]
    /\ UNCHANGED <<libs, dpr, phase, handlers, scriptThrew, scroller, resizes, attrs, scanOptions, time, lights, strip, probe>>

\* The page inserts a container into the document.  The scan read
\* querySelectorAll once, in the DOMContentLoaded listener; no code of the
\* script runs on an insertion.
AddContainer(c) ==
    /\ ~dom[c].inDoc
    /\ dom' = [dom EXCEPT ![c].inDoc = TRUE]
    /\ UNCHANGED <<libs, dpr, phase, handlers, scriptThrew, scroller, resizes, attrs, scanOptions, inst, time, lights, strip, probe>>

\* A window resize event: every registered onWindowResize runs.
WindowResize ==
    /\ resizes < MaxWindowResize
    /\ \E c \in Containers : "resize" \in inst[c].listeners
    /\ resizes' = resizes + 1
    /\ inst' = [c \in Containers |->
                   IF "resize" \in inst[c].listeners
                   THEN HyperOnWindowResize(inst[c], dom[c], dpr) ELSE inst[c]]
    /\ UNCHANGED <<libs, dpr, phase, handlers, scriptThrew, scroller, dom, attrs, scanOptions, time, lights, strip, probe>>

\* Layout gives a container another size; a ResizeObserver on it has a
\* notification queued.
HostLayout(c) ==
    /\ phase = "ready"
    /\ dom[c].inDoc
    /\ \E size \in HostSizes \ {dom[c].size} : dom' = [dom EXCEPT ![c].size = size]
    /\ inst' = [inst EXCEPT ![c].roPending = @ \/ ("resizeObserver" \in inst[c].listeners)]
    /\ UNCHANGED <<libs, dpr, phase, handlers, scriptThrew, scroller, resizes, attrs, scanOptions, time, lights, strip, probe>>

\* A press or release event delivered to the listener of every instance.
InputBroadcast(c, e) ==
    /\ e \in inst[c].listeners
    /\ inst' = [d \in Containers |->
                   IF e \in inst[d].listeners THEN HyperDispatch(inst[d], e) ELSE inst[d]]
    /\ UNCHANGED <<libs, dpr, phase, handlers, scriptThrew, scroller, resizes, dom, attrs, scanOptions, time, lights, strip, probe>>

\* A press or release event on a container, delivered to its listener.
Input(c, e) ==
    /\ e \in inst[c].listeners
    /\ inst' = [inst EXCEPT ![c] = HyperDispatch(inst[c], e)]
    /\ UNCHANGED <<libs, dpr, phase, handlers, scriptThrew, scroller, resizes, dom, attrs, scanOptions, time, lights, strip, probe>>

\* A pointermove event delivered to the listener of a container: the pointer
\* over the container, or a touch pointer that went down on it and moved on
\* (a touch pointer stays captured by the element it went down on).
PointerXs == {HostOrigin[1] + k : k \in {-2, 0, 2, 4, 8, 10}}
PointerYs == {HostOrigin[2] + k : k \in {-1, 0, 3, 6, 7}}
PointerMove(c, clientX, clientY) ==
    /\ "pointermove" \in inst[c].listeners
    /\ inst' = [inst EXCEPT ![c] = IridescenceOnPointerMove(inst[c], dom[c], clientX, clientY)]
    /\ UNCHANGED <<libs, dpr, phase, handlers, scriptThrew, scroller, resizes, dom, attrs, scanOptions, time, lights, strip, probe>>

\* The frame callback of c has run at the present time.
FrameSeen(c) ==
    IF inst[c].kind = "hyperspeed" THEN inst[c].oldTime = time.now
    ELSE inst[c].uTime = Fx(Seconds(time.now))
\* Time passes between two animation frames, every queued frame callback
\* having run: one frame period, or a gap with the page in the background.
Advance ==
    /\ phase = "ready"
    /\ \A c \in Containers : (inst[c].pending > 0 /\ ~inst[c].disposed) => FrameSeen(c)
    /\ time.advances < MaxAdvances
    /\ \E gap \in {1, BackgroundGap} :
          time' = [time EXCEPT !.now = @ + gap, !.advances = @ + 1]
    /\ UNCHANGED <<libs, dpr, phase, handlers, scriptThrew, scroller, resizes, dom, attrs, scanOptions, inst, lights, strip, probe>>

\* leftCarLights.init() of initSceneObjects, on the options of the object.
BuildCarLights ==
    /\ ~lights.built
    /\ \E draws \in [1..lights.options.lightPairsPerRoadWay.n -> CarDraws] :
          lights' = [lights EXCEPT !.built = TRUE,
                                   !.set = CarLightsInit(lights.options,
                                                         Palette(lights.options.colors.leftCars),
                                                         lights.options.movingAwaySpeed, draws)]
    /\ UNCHANGED <<libs, dpr, phase, handlers, scriptThrew, scroller, resizes, dom, attrs, scanOptions, inst, time, strip, probe>>

\* Both evaluators of the strategy applied to the progress and time of the
\* probe: getJS as update() calls it, getDistortion as a vertex shader does
\* with uTime at the same time.
EvaluateDistortion ==
    /\ ~probe.evaluated
    /\ probe' = [probe EXCEPT !.evaluated = TRUE,
                              !.js = getJS(probe.progress, probe.time),
                              !.gpu = getDistortion(probe.progress, probe.time)]
    /\ UNCHANGED <<libs, dpr, phase, handlers, scriptThrew, scroller, resizes, dom, attrs, scanOptions, inst, time, lights, strip>>

\* The ResizeObserver callback of an Iridescence instance.
ResizeObserved(c) ==
    /\ inst[c].roPending
    /\ "resizeObserver" \in inst[c].listeners
    /\ inst' = [inst EXCEPT ![c] = [IridescenceResize(inst[c], dom[c]) EXCEPT !.roPending = FALSE]]
    /\ UNCHANGED <<libs, dpr, phase, handlers, scriptThrew, scroller, resizes, dom, attrs, scanOptions, time, lights, strip, probe>>

\* ------------------------------------------------------------------------
\* Specifications
\* ------------------------------------------------------------------------
NoAttrs == [k \in AttrKeys |-> Absent]
S_falseWord == JsStr(<<"f", "a", "l", "s", "e">>)
\* Pages of the lifecycle specification: any data-effect per container, every
\* parameter at its default but for data-mouse-react on an iridescence one.
LifeAttrs == {NoAttrs, [NoAttrs EXCEPT !["mouse-react"] = S_falseWord]}

Init ==
    /\ libs \in [LibNames -> BOOLEAN]
    /\ dpr \in DevicePixelRatios
    /\ phase = "parsing"
    /\ handlers = {}
    /\ scriptThrew = FALSE
    /\ scroller = [present |-> TRUE, clicks |-> FALSE]
    /\ resizes = 0
    /\ dom \in [Containers -> [effect : Effects, inDoc : {TRUE}, size : {BaseSize}, children : {0}]]
    /\ attrs \in [Containers -> LifeAttrs]
    /\ \A c \in Containers : dom[c].effect # "iridescence" => attrs[c] = NoAttrs
    /\ scanOptions = [c \in Containers |-> NoOptions]
    /\ inst = [c \in Containers |-> NoInstance]
    /\ time = [now |-> 0, advances |-> 0]
    /\ lights = NoLights
    /\ strip = NoStrip
    /\ probe = NoProbe

Next ==
    \/ ScriptLoad
    \/ DOMContentLoaded
    \/ \E c \in Containers : Frame(c)
    \/ \E c \in PageTargets : DisposeCall(c)
    \/ \E c \in PageTargets : RemoveContainer(c)
    \/ WindowResize
    \/ \E c \in Containers : ResizeObserved(c)

\* Declared strings of the resolver specification, per kind of key.
NumberStrings == {<<"4">>, <<"0", ".", "7">>, <<".", "5">>, <<"+", "4">>}
MalformedNumbers == {<<"a", "b", "c">>, <<>>}
ColorStrings == {<<"#", "f", "f", "f", "f", "f", "f">>, <<"0", "x", "f", "f", "f", "f", "f", "f">>, <<"[", "1", ",", "1", ",", "1", "]">>, <<"#", "f", "f", "0", "0", "0", "0">>, <<"[", "1", ",", "0", ",", "0", "]">>}
MalformedColors == {<<"[", "1", ",", "2">>}
BooleanStrings == {<<"t", "r", "u", "e">>, <<"f", "a", "l", "s", "e">>, <<"T", "R", "U", "E">>, <<"y", "e", "s">>}
DistortionStrings == {TurbulentName, <<"a", "b", "c">>, <<>>, <<"c", "o", "n", "s", "t", "r", "u", "c", "t", "o", "r">>}
\* The JSON literal null, declarable on any key.
NullWord == <<"n", "u", "l", "l">>
Candidates(k) ==
    {NullWord} \cup
    (IF k = "color" \/ k \in HyperColorKeys THEN ColorStrings \cup MalformedColors
     ELSE IF k = "mouse-react" THEN BooleanStrings
     ELSE IF k = "distortion" THEN DistortionStrings
     ELSE NumberStrings \cup MalformedNumbers)
KeysOf(effect) ==
    IF effect = "iridescence" THEN IridescenceKeys
    ELSE IF effect = "hyperspeed" THEN HyperspeedKeys ELSE {}

\* Attributes a page declares on one container of the resolver specification.
MaxDeclared == 2
RECURSIVE DeclaredAttrs(_, _)
DeclaredAttrs(effect, n) ==
    IF n = 0 THEN {NoAttrs}
    ELSE LET prev == DeclaredAttrs(effect, n - 1)
         IN  prev \cup {[a EXCEPT ![k] = JsStr(s)] :
                           a \in prev, <<k, s>> \in
                               UNION {{<<key, str>> : str \in Candidates(key)} : key \in KeysOf(effect)}}

\* The resolver specification: every library loaded, one container with an
\* effect and any declared attributes, evaluated and scanned.
InitResolve ==
    /\ libs = [l \in LibNames |-> TRUE]
    /\ dpr = 1
    /\ phase = "parsing"
    /\ handlers = {}
    /\ scriptThrew = FALSE
    /\ scroller = [present |-> TRUE, clicks |-> FALSE]
    /\ resizes = 0
    /\ \E effect \in {"iridescence", "hyperspeed"} :
          /\ dom = [c \in Containers |->
                       [effect |-> IF c = "c1" THEN effect ELSE "none",
                        inDoc |-> TRUE, size |-> BaseSize, children |-> 0]]
          /\ \E a \in DeclaredAttrs(effect, MaxDeclared) :
                attrs = [c \in Containers |-> IF c = "c1" THEN a ELSE NoAttrs]
    /\ scanOptions = [c \in Containers |-> NoOptions]
    /\ inst = [c \in Containers |-> NoInstance]
    /\ time = [now |-> 0, advances |-> 0]
    /\ lights = NoLights
    /\ strip = NoStrip
    /\ probe = NoProbe

NextResolve == ScriptLoad \/ DOMContentLoaded

SpecResolve == InitResolve /\ [][NextResolve]_vars

Spec == Init /\ [][Next]_vars

\* The motion specification: every library loaded, one effect container, a
\* Hyperspeed one with data-speed-up absent or declared or an Iridescence one
\* with data-color absent or [1,0,0]; the clock advances,
\* press and release events arrive, the window is resized.
MotionSpeedUps == {<<"-", "2">>, <<"a", "b", "c">>}
\* data-color of the Iridescence container of the motion specification.
RedTriplet == <<"[", "1", ",", "0", ",", "0", "]">>
InitMotion ==
    /\ libs = [l \in LibNames |-> TRUE]
    /\ dpr = 1
    /\ phase = "parsing"
    /\ handlers = {}
    /\ scriptThrew = FALSE
    /\ scroller = [present |-> TRUE, clicks |-> FALSE]
    /\ resizes = 0
    /\ \E effect \in {"iridescence", "hyperspeed"} :
          /\ dom = [c \in Containers |->
                       [effect |-> IF c = "c1" THEN effect ELSE "none",
                        inDoc |-> TRUE, size |-> BaseSize, children |-> 0]]
          /\ \E a \in {NoAttrs} \cup {[NoAttrs EXCEPT !["speed-up"] = JsStr(s)] :
                                          s \in IF effect = "hyperspeed" THEN MotionSpeedUps ELSE {}}
                                \cup {[NoAttrs EXCEPT !["color"] = JsStr(s)] :
                                          s \in IF effect = "iridescence" THEN {RedTriplet} ELSE {}} :
                attrs = [c \in Containers |-> IF c = "c1" THEN a ELSE NoAttrs]
    /\ scanOptions = [c \in Containers |-> NoOptions]
    /\ inst = [c \in Containers |-> NoInstance]
    /\ time = [now |-> 0, advances |-> 0]
    /\ lights = NoLights
    /\ strip = NoStrip
    /\ probe = NoProbe

NextMotion ==
    \/ ScriptLoad
    \/ DOMContentLoaded
    \/ \E c \in Containers : Frame(c)
    \/ Advance
    \/ \E c \in Containers, e \in PressEvents \cup ReleaseEvents : Input(c, e)
    \/ WindowResize

SpecMotion == InitMotion /\ [][NextMotion]_vars

\* The easing specification: the motion specification for one Hyperspeed
\* container whose data-speed-up is absent (the default 2) or declares a
\* non-negative number, Infinity among them.
EaseSpeedUps == {<<"0">>, <<"0", ".", "7">>, <<"4">>, InfinityWord}
InitEase ==
    /\ libs = [l \in LibNames |-> TRUE]
    /\ dpr = 1
    /\ phase = "parsing"
    /\ handlers = {}
    /\ scriptThrew = FALSE
    /\ scroller = [present |-> TRUE, clicks |-> FALSE]
    /\ resizes = 0
    /\ dom = [c \in Containers |->
                 [effect |-> IF c = "c1" THEN "hyperspeed" ELSE "none",
                  inDoc |-> TRUE, size |-> BaseSize, children |-> 0]]
    /\ \E a \in {NoAttrs} \cup {[NoAttrs EXCEPT !["speed-up"] = JsStr(s)] : s \in EaseSpeedUps} :
          attrs = [c \in Containers |-> IF c = "c1" THEN a ELSE NoAttrs]
    /\ scanOptions = [c \in Containers |-> NoOptions]
    /\ inst = [c \in Containers |-> NoInstance]
    /\ time = [now |-> 0, advances |-> 0]
    /\ lights = NoLights
    /\ strip = NoStrip
    /\ probe = NoProbe
SpecEase == InitEase /\ [][NextMotion]_vars

\* The car-lights specification: CarLights.init applied to the default
\* options with any lane count of LaneCounts and any pair count up to
\* MaxPairs, for every draw of CarDraws per pair; the page itself idle.
LaneCounts == {4, 8}
InitCars ==
    /\ libs = [l \in LibNames |-> TRUE]
    /\ dpr = 1
    /\ phase = "parsing"
    /\ handlers = {}
    /\ scriptThrew = FALSE
    /\ scroller = [present |-> TRUE, clicks |-> FALSE]
    /\ resizes = 0
    /\ dom = [c \in Containers |-> [effect |-> "none", inDoc |-> TRUE, size |-> BaseSize, children |-> 0]]
    /\ attrs = [c \in Containers |-> NoAttrs]
    /\ scanOptions = [c \in Containers |-> NoOptions]
    /\ inst = [c \in Containers |-> NoInstance]
    /\ time = [now |-> 0, advances |-> 0]
    /\ \E lanes \in LaneCounts, pairs \in 1..MaxPairs :
          lights = [NoLights EXCEPT !.which = "leftCarLights",
                                    !.options =
                       [defaultHyperspeedOptions EXCEPT !.lanesPerRoad = JsInt(lanes),
                                                        !.lightPairsPerRoadWay = JsInt(pairs)]]
    /\ strip = NoStrip
    /\ probe = NoProbe
SpecCars == InitCars /\ [][BuildCarLights]_vars

\* The layout specification: every library loaded, one effect container at
\* either pixel ratio; layout resizes the container, the page removes it,
\* the window is resized, frames run.
InitLayout ==
    /\ Init
    /\ libs = [l \in LibNames |-> TRUE]
    /\ dom["c1"].effect # "none"
    /\ dom["c2"].effect = "none"
    /\ attrs = [c \in Containers |-> NoAttrs]
NextLayout ==
    \/ ScriptLoad
    \/ DOMContentLoaded
    \/ \E c \in Containers : Frame(c)
    \/ \E c \in PageTargets : HostLayout(c)
    \/ \E c \in PageTargets : RemoveContainer(c)
    \/ WindowResize
    \/ \E c \in Containers : ResizeObserved(c)
SpecLayout == InitLayout /\ [][NextLayout]_vars

\* The distortion specification: both evaluators applied once to a progress
\* on the travel axis (eighths of it, the reference point 0.0125 of the
\* shader and the 0.025 update() passes) and a time; the page itself idle.
ProbeProgress == {(HalfTurn * k) \div 8 : k \in 0..8} \cup {HalfTurn \div 80, HalfTurn \div 40}
ProbeTimes == {0, 8, 400, 1000, 2000, 3336}
InitDistortion ==
    /\ libs = [l \in LibNames |-> TRUE]
    /\ dpr = 1
    /\ phase = "parsing"
    /\ handlers = {}
    /\ scriptThrew = FALSE
    /\ scroller = [present |-> TRUE, clicks |-> FALSE]
    /\ resizes = 0
    /\ dom = [c \in Containers |-> [effect |-> "none", inDoc |-> TRUE, size |-> BaseSize, children |-> 0]]
    /\ attrs = [c \in Containers |-> NoAttrs]
    /\ scanOptions = [c \in Containers |-> NoOptions]
    /\ inst = [c \in Containers |-> NoInstance]
    /\ time = [now |-> 0, advances |-> 0]
    /\ lights = NoLights
    /\ strip = NoStrip
    /\ \E p \in ProbeProgress, t \in ProbeTimes : probe = [NoProbe EXCEPT !.progress = p, !.time = t]
SpecDistortion == InitDistortion /\ [][EvaluateDistortion]_vars

\* The pointer specification: every library loaded, one Iridescence
\* container with data-mouse-react absent or "false"; layout resizes the
\* container, pointermove events arrive, frames run.
InitPointer ==
    /\ Init
    /\ libs = [l \in LibNames |-> TRUE]
    /\ dpr = 1
    /\ dom["c1"].effect = "iridescence"
    /\ dom["c2"].effect = "none"
NextPointer ==
    \/ ScriptLoad
    \/ DOMContentLoaded
    \/ \E c \in Containers : Frame(c)
    \/ \E c \in PageTargets : HostLayout(c)
    \/ \E c \in Containers : ResizeObserved(c)
    \/ \E c \in Containers, x \in PointerXs, y \in PointerYs : PointerMove(c, x, y)
SpecPointer == InitPointer /\ [][NextPointer]_vars

\* The two-instance specification: every library loaded, an effect on each
\* of the two containers; frames, press and release events, dispose() calls,
\* layout changes and window resizes in any order.
InitPair ==
    /\ Init
    /\ libs = [l \in LibNames |-> TRUE]
    /\ dpr = 1
    /\ \A c \in Containers : dom[c].effect # "none"
    /\ attrs = [c \in Containers |-> NoAttrs]
NextPair ==
    \/ ScriptLoad
    \/ DOMContentLoaded
    \/ \E c \in Containers : Frame(c)
    \/ \E c \in Containers, e \in {"mousedown", "mouseup"} : Input(c, e)
    \/ \E c \in PageTargets : DisposeCall(c)
    \/ \E c \in PageTargets : HostLayout(c)
    \/ \E c \in Containers : ResizeObserved(c)
SpecPair == InitPair /\ [][NextPair]_vars

\* ------------------------------------------------------------------------
\* The looping scroller
\* ------------------------------------------------------------------------
scrollAmount == 200
\* How near the right edge counts as the end, in pixels.
EndSlack == 10
Min(a, b) == IF a < b THEN a ELSE b
\* The largest scrollLeft the element accepts.
MaxScrollLeft(s) == Max(s.scrollWidth - s.clientWidth, 0)
\* Assigning container.scrollLeft, and scrollBy({left}) once the smooth
\* scroll has settled: the element clamps the position to its range.
SetScrollLeft(s, x) == [s EXCEPT !.scrollLeft = Max(0, Min(x, MaxScrollLeft(s)))]
ScrollBy(s, left) == SetScrollLeft(s, s.scrollLeft + left)

\* scrollRight() without the jump back to the beginning.
scrollRightNoLoop(s) == ScrollBy(s, scrollAmount)

\* The click handlers.
scrollLeft(s) ==
    IF s.scrollLeft <= 0 THEN SetScrollLeft(s, s.scrollWidth)
    ELSE ScrollBy(s, -scrollAmount)
scrollRight(s) ==
    IF s.scrollLeft + s.clientWidth >= s.scrollWidth - EndSlack THEN SetScrollLeft(s, 0)
    ELSE ScrollBy(s, scrollAmount)

\* A click on the left or the right button, by a user who keeps to the
\* button strip.button names.
ClickLeft ==
    /\ scroller.clicks /\ strip.button = "left"
    /\ strip' = scrollLeft(strip)
    /\ UNCHANGED <<libs, dpr, phase, handlers, scriptThrew, scroller, resizes, dom, attrs, scanOptions, inst, time, lights, probe>>
ClickRight ==
    /\ scroller.clicks /\ strip.button = "right"
    /\ strip' = scrollRight(strip)
    /\ UNCHANGED <<libs, dpr, phase, handlers, scriptThrew, scroller, resizes, dom, attrs, scanOptions, inst, time, lights, probe>>

\* The scroller specification: a page without effect containers whose strip
\* is scrollWidth pixels wide behind a viewport of clientWidth pixels (at
\* least one scroll step wide), at rest anywhere in its range; the script
\* loads, the document finishes parsing, and the user clicks one of the
\* two buttons again and again.
StripWidths == {300, 500, 815, 1200}
ViewWidths == {200, 320, 500}
StartPositions == {0, 5, 130, 200, 310, 495, 615, 700, 880, 1000}
InitScroller ==
    /\ libs = [l \in LibNames |-> TRUE]
    /\ dpr = 1
    /\ phase = "parsing"
    /\ handlers = {}
    /\ scriptThrew = FALSE
    /\ scroller = [present |-> TRUE, clicks |-> FALSE]
    /\ resizes = 0
    /\ dom = [c \in Containers |->
                 [effect |-> "none", inDoc |-> TRUE, size |-> BaseSize, children |-> 0]]
    /\ attrs = [c \in Containers |-> NoAttrs]
    /\ scanOptions = [c \in Containers |-> NoOptions]
    /\ inst = [c \in Containers |-> NoInstance]
    /\ time = [now |-> 0, advances |-> 0]
    /\ lights = NoLights
    /\ \E sw \in StripWidths, cw \in ViewWidths, b \in {"left", "right"} :
          \E x \in {p \in StartPositions : p <= Max(sw - cw, 0)} :
              strip = [scrollLeft |-> x, scrollWidth |-> sw, clientWidth |-> cw, button |-> b]
    /\ probe = NoProbe
NextScroller ==
    \/ ScriptLoad
    \/ DOMContentLoaded
    \/ ClickLeft
    \/ ClickRight
SpecScroller ==
    /\ InitScroller /\ [][NextScroller]_vars
    /\ WF_vars(ScriptLoad) /\ WF_vars(DOMContentLoaded)
    /\ WF_vars(ClickLeft) /\ WF_vars(ClickRight)

\* The scene specification: every library loaded, one Hyperspeed container;
\* the model follows one of its scene objects, built with MaxPairs light
\* pairs (or sticks) in place of the 40 (or 20) of the default table; the
\* clock advances, frames run, press and release events arrive, the window
\* is resized.
InitScene ==
    /\ libs = [l \in LibNames |-> TRUE]
    /\ dpr = 1
    /\ phase = "parsing"
    /\ handlers = {}
    /\ scriptThrew = FALSE
    /\ scroller = [present |-> TRUE, clicks |-> FALSE]
    /\ resizes = 0
    /\ dom = [c \in Containers |->
                 [effect |-> IF c = SceneHost THEN "hyperspeed" ELSE "none",
                  inDoc |-> TRUE, size |-> BaseSize, children |-> 0]]
    /\ attrs = [c \in Containers |-> NoAttrs]
    /\ scanOptions = [c \in Containers |-> NoOptions]
    /\ inst = [c \in Containers |-> NoInstance]
    /\ time = [now |-> 0, advances |-> 0]
    /\ \E which \in SceneObjects :
          lights = [NoLights EXCEPT !.which = which,
                                    !.options =
                       [defaultHyperspeedOptions EXCEPT !.lightPairsPerRoadWay = JsInt(MaxPairs),
                                                        !.totalSideLightSticks = JsInt(MaxPairs)]]
    /\ strip = NoStrip
    /\ probe = NoProbe
NextScene ==
    \/ ScriptLoad
    \/ DOMContentLoaded
    \/ \E c \in Containers : Frame(c)
    \/ Advance
    \/ \E c \in Containers, e \in {"mousedown", "mouseup"} : Input(c, e)
    \/ WindowResize
SpecScene == InitScene /\ [][NextScene]_vars

\* The scan specification: every library loaded; each container with any
\* effect, in the document or not when the page is parsed, with or without
\* children of its own; the page inserts and removes containers and calls
\* dispose(), frames run.
ScanChildCounts == {0, 2}
InitScan ==
    /\ libs = [l \in LibNames |-> TRUE]
    /\ dpr = 1
    /\ phase = "parsing"
    /\ handlers = {}
    /\ scriptThrew = FALSE
    /\ scroller = [present |-> TRUE, clicks |-> FALSE]
    /\ resizes = 0
    /\ dom \in [Containers -> [effect : Effects, inDoc : BOOLEAN, size : {BaseSize},
                                children : ScanChildCounts]]
    /\ attrs = [c \in Containers |-> NoAttrs]
    /\ scanOptions = [c \in Containers |-> NoOptions]
    /\ inst = [c \in Containers |-> NoInstance]
    /\ time = [now |-> 0, advances |-> 0]
    /\ lights = NoLights
    /\ strip = NoStrip
    /\ probe = NoProbe
NextScan ==
    \/ ScriptLoad
    \/ DOMContentLoaded
    \/ \E c \in Containers : Frame(c)
    \/ \E c \in Containers : AddContainer(c)
    \/ \E c \in PageTargets : RemoveContainer(c)
    \/ \E c \in PageTargets : DisposeCall(c)
SpecScan == InitScan /\ [][NextScan]_vars

\* A page with every library loaded and one effect container.  The browser
\* runs every queued callback: script evaluation, the DOMContentLoaded
\* dispatch, animation frames, observer notifications; nothing obliges the
\* page to call dispose() or to remove a container.
InitOneEffect ==
    /\ Init
    /\ libs = [l \in LibNames |-> TRUE]
    /\ dom["c2"].effect = "none"
FairSpec ==
    /\ InitOneEffect
    /\ [][Next]_vars
    /\ WF_vars(ScriptLoad)
    /\ WF_vars(DOMContentLoaded)
    /\ \A c \in Containers : WF_vars(Frame(c)) /\ WF_vars(ResizeObserved(c))

\* ------------------------------------------------------------------------
\* Properties: lifecycle (Spec, FairSpec)
\* ------------------------------------------------------------------------
Hyper(c) == inst[c].kind = "hyperspeed"
Live(c) == inst[c].status = "live"

\* C1: once a Hyperspeed instance is disposed it stays disposed, no step
\* renders or updates it again, and a frame callback that fires for it issues
\* no backend call, raises nothing and schedules no further frame.
C1_DisposedTickInert ==
    [][\A c \in Containers :
          (Hyper(c) /\ inst[c].disposed) =>
              /\ inst'[c].disposed
              /\ inst'[c].renders = inst[c].renders
              /\ inst'[c].updates = inst[c].updates
              /\ inst'[c].pending <= inst[c].pending
              /\ Frame(c) => /\ BackendCalls(inst'[c]) = BackendCalls(inst[c])
                             /\ inst'[c].errors = inst[c].errors
                             /\ inst'[c].pending = inst[c].pending - 1]_vars
\* A frame that was queued before dispose has fired on a disposed instance.
C1_Witness ==
    \E c \in Containers : Hyper(c) /\ Live(c) /\ inst[c].disposed /\ inst[c].pending = 0

\* C2: dispose() on an already-disposed instance raises nothing, issues no
\* backend call and leaves the instance as it was.
C2_SecondDisposeInert ==
    [][\A c \in Containers :
          (Live(c) /\ inst[c].disposed /\ DisposeCall(c)) =>
              /\ BackendCalls(inst'[c]) = BackendCalls(inst[c])
              /\ inst'[c].errors = inst[c].errors
              /\ [inst'[c] EXCEPT !.disposeCalls = inst[c].disposeCalls] = inst[c]]_vars

\* C3: a running instance whose container is removed from the document is
\* eventually disposed, with no frame left queued.
C3_RemovedEventuallyDisposed ==
    \A c \in Containers :
        [](Live(c) /\ ~dom[c].inDoc => <>(inst[c].disposed /\ inst[c].pending = 0))

\* C4: after dispose() was called on an instance of either kind, none of the
\* listeners or observers its setup registered is still registered.
C4_ListenersRemovedAfterDispose ==
    \A c \in Containers : inst[c].disposeCalls > 0 => inst[c].listeners = {}

\* C5: a constructor that ran without its library returned cleanly: it
\* logged, raised nothing, attached no canvas, registered no listener or
\* observer, and queued no frame.
LibraryAbsent(c) ==
    \/ dom[c].effect = "iridescence" /\ ~libs["ogl"]
    \/ dom[c].effect = "hyperspeed" /\ (~libs["THREE"] \/ ~libs["POSTPROCESSING"])
C5_AbortsCleanly ==
    \A c \in Containers :
        (inst[c].status # "none" /\ LibraryAbsent(c)) =>
            /\ inst[c].status = "aborted"
            /\ inst[c].logged
            /\ ~inst[c].attached
            /\ inst[c].listeners = {}
            /\ ~inst[c].roPending
            /\ inst[c].pending = 0
            /\ inst[c].renders = 0
\* Both constructors have aborted on one page.
C5_Witness ==
    /\ \E c \in Containers : inst[c].kind = "iridescence" /\ inst[c].status = "aborted"
    /\ \E c \in Containers : inst[c].kind = "hyperspeed" /\ inst[c].status = "aborted"

\* C6: on a page without the Hyperspeed libraries the script raises nothing,
\* the iridescence containers get their effect and the scroller its handlers.
C6_PageUnaffected ==
    (phase = "ready" /\ (~libs["THREE"] \/ ~libs["POSTPROCESSING"])) =>
        /\ ~scriptThrew
        /\ scroller.present => scroller.clicks
        /\ \A c \in Containers :
              (dom[c].effect = "iridescence" /\ dom[c].inDoc /\ libs["ogl"]) => Live(c)

\* ------------------------------------------------------------------------
\* Properties: option resolution (SpecResolve)
\* ------------------------------------------------------------------------
\* The option field a key resolves into.
FieldOf(k) ==
    CASE k = "mouse-react" -> "mouseReact"
      [] k = "road-width" -> "roadWidth"
      [] k = "island-width" -> "islandWidth"
      [] k = "lanes-per-road" -> "lanesPerRoad"
      [] k = "fov-speed-up" -> "fovSpeedUp"
      [] k = "speed-up" -> "speedUp"
      [] k = "left-cars" -> "leftCars"
      [] k = "right-cars" -> "rightCars"
      [] k = "shoulder-lines" -> "shoulderLines"
      [] k = "broken-lines" -> "brokenLines"
      [] k = "road-color" -> "roadColor"
      [] k = "island-color" -> "islandColor"
      [] OTHER -> k
Resolved(c, k) ==
    IF k \in HyperColorKeys THEN inst[c].options.colors[FieldOf(k)]
    ELSE inst[c].options[FieldOf(k)]
Declared(c, k) == attrs[c][k] # Absent
NumericKeysOf(effect) ==
    IF effect = "iridescence" THEN {"speed", "amplitude"}
    ELSE IF effect = "hyperspeed" THEN HyperNumericKeys ELSE {}
ColorKeysOf(effect) ==
    IF effect = "iridescence" THEN {"color"}
    ELSE IF effect = "hyperspeed" THEN HyperColorKeys ELSE {}
\* The documented defaults: the interface table for Iridescence, the default
\* table for Hyperspeed.
DocumentedDefault(k) ==
    CASE k = "color" -> JsArr(<<JsNum(1, 0, <<5>>), JsNum(1, 0, <<7>>), JsInt(1)>>)
      [] k = "speed" -> JsNum(1, 0, <<7>>)
      [] k = "amplitude" -> JsNum(1, 0, <<2>>)
      [] k = "mouse-react" -> JsBool(TRUE)
      [] k \in HyperColorKeys -> defaultHyperspeedColors[FieldOf(k)]
      [] OTHER -> defaultHyperspeedOptions[FieldOf(k)]
\* The number each string of NumberStrings denotes.
NumberOf(s) ==
    CASE s = <<"4">> -> JsInt(4)
      [] s = <<"0", ".", "7">> -> JsNum(1, 0, <<7>>)
      [] s = <<".", "5">> -> JsNum(1, 0, <<5>>)
      [] s = <<"+", "4">> -> JsInt(4)

\* C7: parseData raises nothing, and a declared value that is no value of
\* the key's type resolves to the raw string or to the supplied default.
C7_MalformedFallsBack ==
    \A c \in Containers :
        inst[c].status # "none" =>
            /\ Live(c)
            /\ \A k \in NumericKeysOf(dom[c].effect) :
                  (Declared(c, k) /\ attrs[c][k].s \in MalformedNumbers) =>
                      Resolved(c, k) \in {attrs[c][k], DocumentedDefault(k)}
            /\ \A k \in ColorKeysOf(dom[c].effect) :
                  (Declared(c, k) /\ attrs[c][k].s \in MalformedColors) =>
                      Resolved(c, k) \in {attrs[c][k], DocumentedDefault(k)}

\* C8: every numeric parameter declared with a numeric string resolves to
\* that number, and every absent one to its documented default (as do the
\* absent colour and mouse-reactivity of Iridescence).
C8_NumericResolved ==
    \A c \in Containers :
        Live(c) =>
            /\ \A k \in NumericKeysOf(dom[c].effect) :
                  /\ ~Declared(c, k) => Resolved(c, k) = DocumentedDefault(k)
                  /\ (Declared(c, k) /\ attrs[c][k].s \in NumberStrings) =>
                         Resolved(c, k) = NumberOf(attrs[c][k].s)
            /\ \A k \in KeysOf(dom[c].effect) \cap {"color", "mouse-react"} :
                  ~Declared(c, k) => Resolved(c, k) = DocumentedDefault(k)

\* The colour the build stage holds for a colour key, and the one the same
\* stages compute when the key is declared as str.
InternalColor(c, k) ==
    IF k = "color" THEN inst[c].uColor ELSE inst[c].sceneColors[FieldOf(k)]
InternalColorOf(k, str) ==
    LET v == parseData(JsStr(str), KeyChars(k), DocumentedDefault(k))
    IN  IF k = "color" THEN OglColor(v)
        ELSE IF k \in {"left-cars", "right-cars"} THEN Palette(v)
        ELSE hexToColor(v)
WhiteForms == {<<"#", "f", "f", "f", "f", "f", "f">>, <<"0", "x", "f", "f", "f", "f", "f", "f">>, <<"[", "1", ",", "1", ",", "1", "]">>}

\* C9: "#ffffff", "0xffffff" and the triplet [1,1,1] resolve to the same
\* internal colour, for every colour parameter.
C9_ColorFormsAgree ==
    \A c \in Containers :
        Live(c) =>
            \A k \in ColorKeysOf(dom[c].effect) :
                (Declared(c, k) /\ attrs[c][k].s \in WhiteForms) =>
                    \A other \in WhiteForms : InternalColor(c, k) = InternalColorOf(k, other)

\* The value each declared colour string stands for: the string itself, or
\* the array it spells.
DeclaredColor(s) ==
    CASE s = <<"[", "1", ",", "1", ",", "1", "]">> -> JsArr(<<JsInt(1), JsInt(1), JsInt(1)>>)
      [] s = <<"[", "1", ",", "0", ",", "0", "]">> -> JsArr(<<JsInt(1), JsInt(0), JsInt(0)>>)
      [] OTHER -> JsStr(s)
ColorFields ==
    {"roadColor", "islandColor", "background", "shoulderLines", "brokenLines",
     "leftCars", "rightCars", "sticks"}

\* C10: the resolved colours hold every colour key, each with the declared
\* value when its attribute is declared and the default-table value when it
\* is not; sticks keeps its default.
C10_ColorsMergeByKey ==
    \A c \in Containers :
        (Hyper(c) /\ Live(c)) =>
            /\ DOMAIN inst[c].options.colors = ColorFields
            /\ inst[c].options.colors["sticks"] = defaultHyperspeedColors["sticks"]
            /\ \A k \in HyperColorKeys :
                  /\ ~Declared(c, k) => Resolved(c, k) = defaultHyperspeedColors[FieldOf(k)]
                  /\ (Declared(c, k) /\ attrs[c][k].s \in ColorStrings) =>
                         Resolved(c, k) = DeclaredColor(attrs[c][k].s)

\* C11: every field of the resolved options that the build and render stages
\* read holds a concrete value, neither undefined nor null, whatever strings
\* the page declares.
C11_ResolvedConcrete ==
    \A c \in Containers :
        Live(c) =>
            /\ \A k \in KeysOf(dom[c].effect) : Resolved(c, k).t \notin {"undefined", "null"}
            /\ Hyper(c) => inst[c].options.colors["sticks"].t \notin {"undefined", "null"}

\* ------------------------------------------------------------------------
\* Properties: resizing and the frame callback (SpecLayout)
\* ------------------------------------------------------------------------
\* C12: a frame of a running Hyperspeed instance whose camera and backing
\* store were already sized to the host's current size performs no resize,
\* at any device pixel ratio.
C12_ResizeOncePerChange ==
    [][\A c \in Containers :
          (Hyper(c) /\ Live(c) /\ ~inst[c].disposed /\ Frame(c)
              /\ inst[c].aspect = ContainerSize(dom[c])) =>
                 inst'[c].setSizes = inst[c].setSizes]_vars

\* C18: a host container of zero width or height leaves no zero, infinite or
\* NaN size behind: the backing store of a built instance never has a zero
\* dimension, and its camera aspect or resolution uniform never has a zero
\* width or height (a quotient of 0, Infinity or NaN).
C18_ZeroSizeTolerated ==
    \A c \in Containers :
        Live(c) =>
            /\ inst[c].backing[1] # 0 /\ inst[c].backing[2] # 0
            /\ inst[c].aspect[1] # 0 /\ inst[c].aspect[2] # 0

\* C19: every frame callback of a running instance of either effect takes
\* its steps in the order resize check, render, state update, scheduling of
\* the next frame.
C19_FrameStepOrder ==
    [][\A c \in Containers :
          (Live(c) /\ ~inst[c].disposed /\ Frame(c)) =>
              inst'[c].steps = <<"resize check", "render", "update", "schedule">>]_vars

\* ------------------------------------------------------------------------
\* Properties: easing, targets and time (SpecMotion)
\* ------------------------------------------------------------------------
Running(c) == Live(c) /\ ~inst[c].disposed
\* The most recent press/release-class event was a press.
Pressed(c) ==
    /\ inst[c].fovTarget = inst[c].options.fovSpeedUp
    /\ inst[c].speedUpTarget = inst[c].options.speedUp
Abs(x) == IF x < 0 THEN -x ELSE x
\* b lies between a and c inclusive.
Between(a, b, c) == (a <= b /\ b <= c) \/ (c <= b /\ b <= a)

\* C13: on every frame of a pressed Hyperspeed instance, whatever the frame
\* delta, speedUp moves toward speedUpTarget without passing it, and either
\* reaches it or closes the gap by at least the easing limit (so it reaches
\* it within a bounded number of frames).
C13_SpeedUpEases ==
    [][\A c \in Containers :
          (Hyper(c) /\ Running(c) /\ Pressed(c) /\ Frame(c)) =>
              LET target == ToFixed(inst[c].speedUpTarget, SpeedUnit)
                  before == inst[c].speedUp
                  after == inst'[c].speedUp
              IN  /\ ~target.nan /\ ~after.nan
                  /\ Between(before.v, after.v, target.v)
                  /\ \/ after.v = target.v
                     \/ Abs(target.v - after.v) + SpeedUnit \div 100000
                            <= Abs(target.v - before.v)]_vars

\* C14: on every frame and for every frame delta, the camera field of view
\* after the update lies between its previous value and fovTarget.
C14_FovBetween ==
    [][\A c \in Containers :
          (Hyper(c) /\ Running(c) /\ Frame(c)) =>
              LET target == ToFixed(inst[c].fovTarget, FovUnit)
              IN  /\ ~target.nan /\ ~inst'[c].fov.nan
                  /\ Between(inst[c].fov.v, inst'[c].fov.v, target.v)]_vars

C20_TimeMonotonic ==
    [][\A c \in Containers :
          (Running(c) /\ Frame(c)) =>
              ~(~inst[c].uTime.nan /\ ~inst'[c].uTime.nan
                   /\ inst'[c].uTime.v < inst[c].uTime.v)]_vars

\* ------------------------------------------------------------------------
\* Properties: car lights (SpecCars)
\* ------------------------------------------------------------------------
\* The x component of the k-th instance of aOffset.
LightX(k) == lights.set.aOffset[3 * (k - 1) + 1]

\* C16: every car-light instance init() builds has its lateral position
\* within [-roadWidth/2, roadWidth/2].
C16_LightsWithinRoad ==
    lights.built =>
        \A k \in 1..lights.set.instanceCount :
            Abs(LightX(k)) <= ToFixed(lights.options.roadWidth, CarUnit).v \div 2

\* C17: a built car-light set has 2 x lightPairsPerRoadWay instances, three
\* entries per instance in each attribute array, and the two lights of a
\* pair share metrics, colour, vertical and longitudinal offset.
C17_PairsShareAttributes ==
    lights.built =>
        LET set == lights.set
            n == set.instanceCount
        IN  /\ n = 2 * lights.options.lightPairsPerRoadWay.n
            /\ Len(set.aOffset) = 3 * n /\ Len(set.aMetrics) = 3 * n /\ Len(set.aColor) = 3 * n
            /\ \A p \in 0..(lights.options.lightPairsPerRoadWay.n - 1) :
                  /\ \A j \in 1..3 : /\ set.aMetrics[6 * p + j] = set.aMetrics[6 * p + 3 + j]
                                     /\ set.aColor[6 * p + j] = set.aColor[6 * p + 3 + j]
                  /\ set.aOffset[6 * p + 2] = set.aOffset[6 * p + 5]
                  /\ set.aOffset[6 * p + 3] = set.aOffset[6 * p + 6]
\* A set of at least two pairs whose pairs differ in metrics and colour, the
\* two lights of the first pair apart.
C17_Witness ==
    /\ lights.built
    /\ lights.options.lightPairsPerRoadWay.n >= 2
    /\ lights.set.aMetrics[1] # lights.set.aMetrics[7]
    /\ lights.set.aColor[1] # lights.set.aColor[7]
    /\ LightX(1) < LightX(2)

\* ------------------------------------------------------------------------
\* Properties: the scan (SpecScan)
\* ------------------------------------------------------------------------
\* C21: effect instances are created only by the scan: once DOMContentLoaded
\* has fired, every container with an instance holds at most one child (the
\* canvas of that instance) and has at most one frame callback queued, and
\* no step gives an instance to a container that has none (one inserted
\* after the scan never gets one).
C21_InstancesOnlyFromScan ==
    [][phase = "ready" =>
          \A c \in Containers :
              /\ inst'[c].status # "none" => dom'[c].children <= 1
              /\ inst'[c].pending <= 1
              /\ inst'[c].attached => dom'[c].children = 1
              /\ inst'[c].kind = inst[c].kind
              /\ inst'[c].status = inst[c].status]_vars
\* The scan built a running effect on one container, and another container
\* that declares an effect is in the document without an instance.
C21_Witness ==
    /\ phase = "ready"
    /\ \E c \in Containers :
          Live(c) /\ dom[c].inDoc /\ dom[c].children = 1 /\ inst[c].pending = 1
              /\ inst[c].renders > 1
    /\ \E c \in Containers :
          dom[c].inDoc /\ dom[c].effect # "none" /\ inst[c].status = "none"
\* ------------------------------------------------------------------------
\* Properties: the distortion strategy (SpecDistortion)
\* ------------------------------------------------------------------------
\* C22: for every progress in [0, 1] and every time, getJS(progress, time)
\* and getDistortion(progress) with uTime = time yield the same
\* three-component offset.
C22_EvaluatorsAgree == probe.evaluated => probe.js = probe.gpu
\* ------------------------------------------------------------------------
\* Properties: the Iridescence frame (SpecMotion)
\* ------------------------------------------------------------------------
\* C23: an Iridescence container declaring color [1,0,0] is drawn, on every
\* frame of its loop, by exactly one render of a scene of one mesh with no
\* instanced geometry, its base-colour uniform the declared (1, 0, 0).
C23_OneDrawPerFrame ==
    [][\A c \in Containers :
          (inst'[c].kind = "iridescence" /\ attrs[c]["color"] = JsStr(RedTriplet)) =>
              /\ Live(c)'
              /\ inst'[c].uColor = <<JsInt(1), JsInt(0), JsInt(0)>>
              /\ inst'[c].meshes = 1 /\ inst'[c].instanced = 0
              /\ ~Live(c) => inst'[c].renders = 1
              /\ Frame(c) => inst'[c].renders = Count(inst[c].renders, 1)
              /\ (Live(c) /\ ~Frame(c)) => inst'[c].renders = inst[c].renders]_vars
\* The red Iridescence instance has run frames at two different times.
C23_Witness ==
    \E c \in Containers :
        /\ inst[c].kind = "iridescence" /\ Live(c) /\ attrs[c]["color"] = JsStr(RedTriplet)
        /\ inst[c].renders = 3 /\ inst[c].uTime.v > 0
\* ------------------------------------------------------------------------
\* Properties: construction order (Spec)
\* ------------------------------------------------------------------------
\* The position of the first step named s in the construction of c (0 if none).
FirstStep(c, s) ==
    IF \E k \in 1..Len(inst[c].initSteps) : inst[c].initSteps[k] = s
    THEN CHOOSE k \in 1..Len(inst[c].initSteps) :
             /\ inst[c].initSteps[k] = s
             /\ \A j \in 1..(k - 1) : inst[c].initSteps[j] # s
    ELSE 0

\* C25: a built instance of either effect was constructed in the order
\* renderer, geometry, shader program, attachment of the canvas: the canvas
\* was attached only after geometry and program existed.
C25_InitOrder ==
    \A c \in Containers :
        Live(c) =>
            /\ 0 < FirstStep(c, "renderer")
            /\ FirstStep(c, "renderer") < FirstStep(c, "geometry")
            /\ FirstStep(c, "geometry") < FirstStep(c, "program")
            /\ FirstStep(c, "program") < FirstStep(c, "attach")

\* ------------------------------------------------------------------------
\* Properties: the pointer uniform (SpecPointer)
\* ------------------------------------------------------------------------
\* The pointer at (clientX, clientY) lies over the container.
OverHost(d, clientX, clientY) ==
    LET rect == BoundingClientRect(d)
    IN  /\ rect.left <= clientX /\ clientX <= rect.left + rect.width
        /\ rect.top <= clientY /\ clientY <= rect.top + rect.height

\* C24: with mouse-reactivity enabled, every pointermove event leaves uMouse
\* at the pointer position relative to the container, each component
\* divided by the container's size and within [0, 1], the vertical one
\* flipped (the top edge is 1), taken over in the same event.
C24_PointerNormalized ==
    [][\A c \in Containers, x \in PointerXs, y \in PointerYs :
          PointerMove(c, x, y) =>
              LET rect == BoundingClientRect(dom[c])
                  u == inst'[c].uMouse
              IN  /\ u[1] * Max(rect.width, 1) <= (x - rect.left) * MouseUnit
                  /\ (x - rect.left) * MouseUnit < (u[1] + 1) * Max(rect.width, 1)
                  /\ y = rect.top => u[2] = MouseUnit
                  /\ 0 <= u[1] /\ u[1] <= MouseUnit
                  /\ 0 <= u[2] /\ u[2] <= MouseUnit]_vars
\* ------------------------------------------------------------------------
\* Properties: independence of instances (SpecPair)
\* ------------------------------------------------------------------------
\* A step addressed to container c alone: its frame callback, a press or
\* release on it, a dispose() call on its instance, a layout change of it or
\* its resize notification.
StepOf(c) ==
    \/ Frame(c)
    \/ \E e \in PressEvents \cup ReleaseEvents : Input(c, e)
    \/ DisposeCall(c)
    \/ HostLayout(c)
    \/ ResizeObserved(c)

\* C26: a frame, press, release, resize or dispose of one instance leaves
\* every other instance as it was: easing state, listeners, queued frame,
\* running or disposed status, and its container.
C26_InstancesIndependent ==
    [][\A c \in Containers :
          StepOf(c) => \A d \in Containers \ {c} : inst'[d] = inst[d] /\ dom'[d] = dom[d]]_vars
\* Two Hyperspeed instances: one pressed and then disposed, the other
\* running, released, with its listeners and its frame loop.
C26_Witness ==
    \E c \in Containers, d \in Containers :
        /\ c # d /\ Hyper(c) /\ Hyper(d) /\ Live(c) /\ Live(d)
        /\ inst[c].disposed /\ Pressed(c) /\ inst[c].speedUp # Fx(0)
        /\ Running(d) /\ ~Pressed(d) /\ inst[d].speedUp = Fx(0)
        /\ inst[d].listeners = HyperListeners /\ inst[d].pending = 1 /\ inst[d].renders > 1
\* ------------------------------------------------------------------------
\* Properties: per-instance attributes and the time uniforms
\* (SpecScene, SpecMotion)
\* ------------------------------------------------------------------------
\* C27: once init() has built the attribute arrays of a car-light set or of
\* the light sticks, no frame, update, resize or press/release event changes
\* them (instance count, aOffset, aMetrics, aColor); a frame changes the
\* time uniform only.
C27_AttributesImmutable ==
    [][lights.built =>
          /\ lights'.built
          /\ lights'.set = lights.set
          /\ [lights' EXCEPT !.uTime = lights.uTime] = lights]_vars
\* A built scene object whose time uniform has moved, its instance pressed
\* and the window resized.
C27_Witness ==
    /\ lights.built /\ lights.which = "leftSticks"
    /\ Len(lights.set.aOffset) = MaxPairs
    /\ lights.uTime.v > Seconds(1)
    /\ Pressed(SceneHost) /\ resizes > 0

\* C28: after every update of a running Hyperspeed instance the time
\* uniforms of all its programs hold one value, clock.elapsedTime +
\* timeOffset, timeOffset having grown by speedUp x delta with the speedUp
\* that same update interpolated.
C28_TimeUniformsAgree ==
    [][\A c \in Containers :
          (Hyper(c) /\ Running(c) /\ Frame(c)) =>
              LET delta == time.now - inst[c].oldTime
                  after == inst'[c]
                  grown == IF after.speedUp.nan THEN FxNaN
                           ELSE Fx(MulDiv(after.speedUp.v, delta, FramesPerSecond))
              IN  /\ after.timeOffset = FxAdd(inst[c].timeOffset, grown)
                  /\ \A p \in HyperPrograms :
                        after.programTime[p]
                            = FxAdd(Fx(Seconds(after.elapsed)), after.timeOffset)]_vars
\* A pressed instance has run a frame a frame period after the one before:
\* its time offset has grown and its programs hold a time past the clock's.
C28_Witness ==
    \E c \in Containers :
        /\ Hyper(c) /\ Running(c)
        /\ ~inst[c].timeOffset.nan /\ inst[c].timeOffset.v > 0
        /\ inst[c].elapsed = 1
        /\ inst[c].programTime["road"].v > Seconds(1)
\* ------------------------------------------------------------------------
\* Properties: the scroller (SpecScroller)
\* ------------------------------------------------------------------------
AtStart(s) == s.scrollLeft <= 0
AtEnd(s) == s.scrollLeft + s.clientWidth >= s.scrollWidth - EndSlack
C30_OnePendingFrame ==
    \A c \in Containers :
        /\ Running(c) => inst[c].pending = 1
        /\ inst[c].pending <= 1
\* A running Hyperspeed instance that has run frames beyond the
\* constructor's own tick, one callback pending.
C30_Witness ==
    \E c \in Containers :
        /\ Hyper(c) /\ Running(c)
        /\ inst[c].updates >= 2 /\ inst[c].renders >= 2
        /\ inst[c].pending = 1
\* ------------------------------------------------------------------------
\* Properties: the speed-up range (SpecEase)
\* ------------------------------------------------------------------------
\* a <= b for numbers, either of which may be infinite.
FxLeq(a, b) ==
    /\ ~a.nan /\ ~b.nan
    /\ \/ a.inf = -1
       \/ b.inf = 1
       \/ a.inf = 0 /\ b.inf = 0 /\ a.v <= b.v
\* The configured speed-up amount of an instance is a number, zero or more.
NonNegativeSpeedUp(i) == FxLeq(Fx(0), ToFixed(i.options.speedUp, SpeedUnit))
\* C31: after every step (a press, a release, a frame of any delta, a
\* resize) a Hyperspeed instance configured with a non-negative speed-up has
\* its speedUp within [0, options.speedUp], and the step has not decreased
\* its timeOffset.
C31_SpeedUpWithinRange ==
    [][\A c \in Containers :
          (Hyper(c)' /\ Live(c)' /\ NonNegativeSpeedUp(inst'[c])) =>
              /\ FxLeq(Fx(0), inst'[c].speedUp)
              /\ FxLeq(inst'[c].speedUp, ToFixed(inst'[c].options.speedUp, SpeedUnit))
              /\ FxLeq(IF Live(c) THEN inst[c].timeOffset ELSE Fx(0), inst'[c].timeOffset)]_vars
\* The same for the amounts that are finite: it holds (a released instance
\* easing back down has its speedUp strictly inside the range).
C31_FiniteWithinRange ==
    [][\A c \in Containers :
          (Hyper(c)' /\ Live(c)' /\ NonNegativeSpeedUp(inst'[c])
              /\ ToFixed(inst'[c].options.speedUp, SpeedUnit).inf = 0) =>
              /\ FxLeq(Fx(0), inst'[c].speedUp)
              /\ FxLeq(inst'[c].speedUp, ToFixed(inst'[c].options.speedUp, SpeedUnit))
              /\ FxLeq(IF Live(c) THEN inst[c].timeOffset ELSE Fx(0), inst'[c].timeOffset)]_vars
\* ------------------------------------------------------------------------
\* Properties: mouse reactivity switched off (SpecPointer)
\* ------------------------------------------------------------------------
\* C32: an Iridescence instance whose mouseReact option resolved to false
\* has no pointermove listener, and its uMouse uniform is (0.5, 0.5) in every
\* state, whatever pointer, layout, resize and frame events occur.
C32_NoPointerReaction ==
    \A c \in Containers :
        (inst[c].kind = "iridescence" /\ Live(c)
            /\ inst[c].options.mouseReact = JsBool(FALSE)) =>
            /\ "pointermove" \notin inst[c].listeners
            /\ inst[c].uMouse = <<MouseUnit \div 2, MouseUnit \div 2>>
\* An instance declared with data-mouse-react="false" has run frames and
\* followed a layout change of its container.
C32_Witness ==
    \E c \in Containers :
        /\ inst[c].kind = "iridescence" /\ Live(c)
        /\ attrs[c]["mouse-react"] = S_falseWord
        /\ inst[c].options.mouseReact = JsBool(FALSE)
        /\ inst[c].renders >= 2
        /\ dom[c].size # BaseSize /\ inst[c].backing = dom[c].size /\ ~inst[c].roPending
\* ------------------------------------------------------------------------
\* Properties: the distortion strategy bound to an instance (SpecResolve)
\* ------------------------------------------------------------------------
\* The names the distortions table registers.
RegisteredDistortions == {TurbulentName}
\* C33: whatever data-distortion declares, the strategy of a built Hyperspeed
\* instance is an entry of the distortions table: the entry of the declared
\* name when the table registers it, the turbulentDistortion entry for
\* every other declaration and for none.
C33_StrategyFromRegistry ==
    \A c \in Containers :
        (Hyper(c) /\ Live(c)) =>
            LET declared == attrs[c]["distortion"]
                bound == inst[c].options.distortion
            IN  /\ bound \in {JsObj(name) : name \in RegisteredDistortions}
                /\ bound = IF declared.t = "string" /\ declared.s \in RegisteredDistortions
                           THEN JsObj(declared.s)
                           ELSE JsObj(defaultHyperspeedOptions.distortion.s)
\* The same for the declarations that name no member the table inherits
\* from Object.prototype: it holds.
C33_OwnNamesFromRegistry ==
    \A c \in Containers :
        (Hyper(c) /\ Live(c)
            /\ ~(attrs[c]["distortion"].t = "string"
                    /\ attrs[c]["distortion"].s \in ObjectPrototypeKeys)) =>
            inst[c].options.distortion = JsObj(TurbulentName)
====
